---------------------------- MODULE Spec2Model ----------------------------
(***************************************************************************)
(* escalada-core: the contest state machine (escalada_core/contest.py) and *)
(* its session gate, as a state machine over the box state; the command   *)
(* validator (validation.py) and the Lead ranking engine (lead_ranking.py) *)
(* as functions applied to drawn arguments.                                *)
(*                                                                         *)
(* Encoding of Python values                                               *)
(*   None / missing key   <<>>           (None)                            *)
(*   a present value v    <<v>>          (Some(v))                         *)
(*   str                  a sequence of one-character strings, so that     *)
(*                        strip() and the sanitizer's character filter are *)
(*                        computed, e.g. " A" is <<" ", "A">>               *)
(*   float seconds/holds  integer tenths (12.3 is 123)                     *)
(*   loosely typed input  a tagged tuple <<tag, value>> (RawValues below)  *)
(*   uuid4()              the next unused natural number                   *)
(***************************************************************************)
EXTENDS Integers, Sequences, FiniteSets, TLC

VARIABLES
    state,      \* the box state dict that apply_command mutates
    last,       \* the last event: an apply_command call (its command and
                \* CommandOutcome) or a tab's read of the state
    tab,        \* what a judge tab last read: (sessionId, boxVersion), and since when
    retired,    \* the sessionIds the box had before a reset
    focus,      \* which family of command payloads the environment draws from
    gate,       \* one call of validate_session_and_version: inputs and result
    form,       \* one construction of ValidatedCmd: the fields given and the result
    ranking      \* one call of compute_lead_ranking: arguments and result

vars == <<state, last, tab, retired, focus, gate, form, ranking>>

(***************************************************************************)
(* Optional values and strings                                             *)
(***************************************************************************)
None == <<>>

Some(v) == <<v>>

IsNone(o) == o = <<>>

Get(o) == o[1]

\* str.strip() acts on whitespace; the model's whitespace character is " ".
IsSpace(c) == c = " "

RECURSIVE LStrip(_)
LStrip(s) == IF s # <<>> /\ IsSpace(Head(s)) THEN LStrip(Tail(s)) ELSE s

RECURSIVE RStrip(_)
RStrip(s) ==
    IF s # <<>> /\ IsSpace(s[Len(s)]) THEN RStrip(SubSeq(s, 1, Len(s) - 1)) ELSE s

Strip(s) == RStrip(LStrip(s))

Truncate(s, n) == IF Len(s) > n THEN SubSeq(s, 1, n) ELSE s

RECURSIVE RemoveChars(_, _)
RemoveChars(s, bad) ==
    IF s = <<>> THEN <<>>
    ELSE IF Head(s) \in bad THEN RemoveChars(Tail(s), bad)
         ELSE <<Head(s)>> \o RemoveChars(Tail(s), bad)


(***************************************************************************)
(* validation.py: InputSanitizer                                           *)
(***************************************************************************)
\* The null byte, written as one symbol.
NulChar == "NUL"

\* dangerous_chars of sanitize_competitor_name.  The backtick and the double
\* quote are written by name; the control characters are represented by the
\* null byte.
DangerousChars ==
    {"<", ">", "{", "}", "[", "]", "\\", "|", ";", "(", ")", "&", "$",
     "BACKTICK", "DQUOTE", "*", NulChar}

MaxNameLen == 255

sanitize_string(value, max_length) ==
    RemoveChars(Truncate(Strip(value), max_length), {NulChar})

sanitize_competitor_name(name) ==
    Strip(RemoveChars(sanitize_string(name, MaxNameLen), DangerousChars))

(***************************************************************************)
(* validation.py: ValidatedCmd.  A construction is given the fields below, *)
(* each None when the keyword is not passed; "idx" is no declared field    *)
(* and is kept as an extra.  Floats are in tenths.  The result is the set  *)
(* of validators that raised: the construction succeeds when it is empty.  *)
(***************************************************************************)
Fields(type) ==
    [boxId |-> Some(1),
     type |-> type,
     delta |-> None,
     score |-> None,
     competitor |-> None,
     registeredTime |-> None,
     time |-> None,
     routeIndex |-> None,
     holdsCount |-> None,
     remaining |-> None,
     timeCriterionEnabled |-> None,
     competitorIdx |-> None,
     idx |-> None]

allowed_types ==
    {"START_TIMER", "STOP_TIMER", "RESUME_TIMER", "PROGRESS_UPDATE",
     "REQUEST_ACTIVE_COMPETITOR", "SUBMIT_SCORE", "INIT_ROUTE", "REQUEST_STATE",
     "SET_TIME_CRITERION", "REGISTER_TIME", "TIMER_SYNC", "ACTIVE_CLIMBER",
     "RESET_BOX"}

validate_type(v) == v \in allowed_types

LowerLetters ==
    <<"a", "b", "c", "d", "e", "f", "g", "h", "i", "j", "k", "l", "m",
      "n", "o", "p", "q", "r", "s", "t", "u", "v", "w", "x", "y", "z">>

UpperLetters ==
    <<"A", "B", "C", "D", "E", "F", "G", "H", "I", "J", "K", "L", "M",
      "N", "O", "P", "Q", "R", "S", "T", "U", "V", "W", "X", "Y", "Z">>

\* str.upper()
Upper(s) ==
    [i \in 1..Len(s) |->
        IF \E k \in 1..26 : LowerLetters[k] = s[i]
        THEN UpperLetters[CHOOSE k \in 1..26 : LowerLetters[k] = s[i]]
        ELSE s[i]]

\* pattern in s
Contains(s, pattern) ==
    \E i \in 1..(Len(s) - Len(pattern) + 1) : SubSeq(s, i, i + Len(pattern) - 1) = pattern

dangerous_patterns ==
    {<<"-", "-">>,
     <<"/", "*">>,
     <<"*", "/">>,
     <<"D", "R", "O", "P">>,
     <<"D", "E", "L", "E", "T", "E">>,
     <<"I", "N", "S", "E", "R", "T">>,
     <<"U", "P", "D", "A", "T", "E">>,
     <<"S", "E", "L", "E", "C", "T">>,
     <<"<", "s", "c", "r", "i", "p", "t">>,
     <<"<", "/", "s", "c", "r", "i", "p", "t">>,
     <<"j", "a", "v", "a", "s", "c", "r", "i", "p", "t", ":">>,
     <<"o", "n", "e", "r", "r", "o", "r", "=">>,
     <<"o", "n", "c", "l", "i", "c", "k", "=">>,
     <<"o", "n", "l", "o", "a", "d", "=">>,
     <<"<", "i", "f", "r", "a", "m", "e">>,
     <<"<", "o", "b", "j", "e", "c", "t">>,
     <<"<", "e", "m", "b", "e", "d">>,
     <<"e", "v", "a", "l", "(">>,
     <<"a", "l", "e", "r", "t", "(">>}

\* the field validator of competitor, on a value that is not None: TRUE
\* when it returns
validate_competitor_name(v) ==
    /\ \A pattern \in dangerous_patterns : ~Contains(Upper(Strip(v)), Upper(pattern))
    /\ ~(/\ Contains(Strip(v), <<"'">>)
         /\ \/ Contains(Upper(Strip(v)), <<"O", "R">>)
            \/ Contains(Upper(Strip(v)), <<"A", "N", "D">>)
            \/ Contains(Strip(v), <<"=">>))
    /\ ~(Contains(Strip(v), <<"<">>) /\ Contains(Strip(v), <<">">>))
    /\ Len(Strip(v)) # 0

\* Field(None, ge=lo, le=hi) on an optional number
Within(o, lo, hi) == IsNone(o) \/ (Get(o) >= lo /\ Get(o) <= hi)

\* the declared constraints of the fields, one name per field that fails
FieldErrors(c) ==
    {f \in {"boxId", "type", "delta", "score", "competitor", "registeredTime",
            "routeIndex", "holdsCount", "remaining", "competitorIdx"} :
        CASE f = "boxId" -> IsNone(c.boxId) \/ ~Within(c.boxId, -1, 9999)
          [] f = "type" -> c.type = "" \/ ~validate_type(c.type)
          [] f = "delta" -> ~Within(c.delta, -100, 100)
          [] f = "score" -> ~Within(c.score, 0, 1000)
          [] f = "competitor" ->
                /\ ~IsNone(c.competitor)
                /\ \/ Len(Get(c.competitor)) < 1
                   \/ Len(Get(c.competitor)) > MaxNameLen
                   \/ ~validate_competitor_name(Get(c.competitor))
          [] f = "registeredTime" -> ~Within(c.registeredTime, 0, 36000)
          [] f = "routeIndex" -> ~Within(c.routeIndex, 1, 999)
          [] f = "holdsCount" -> ~Within(c.holdsCount, 0, 100)
          [] f = "remaining" -> ~Within(c.remaining, 0, 99990)
          [] f = "competitorIdx" -> ~Within(c.competitorIdx, 0, 1000)}

\* the model validator: TRUE when it raises
validate_command_fields(c) ==
    CASE c.type = "INIT_ROUTE" -> IsNone(c.routeIndex) \/ IsNone(c.holdsCount)
      [] c.type = "PROGRESS_UPDATE" -> IsNone(c.delta)
      [] c.type = "SUBMIT_SCORE" -> IsNone(c.competitor) /\ IsNone(c.competitorIdx)
      [] c.type = "REGISTER_TIME" -> IsNone(c.registeredTime) /\ IsNone(c.time)
      [] c.type = "TIMER_SYNC" -> IsNone(c.remaining)
      [] c.type = "SET_TIME_CRITERION" -> IsNone(c.timeCriterionEnabled)
      [] OTHER -> FALSE

\* ValidatedCmd(**c): the field validators, then, when none raised, the
\* model validator
ValidatedCmd(c) ==
    IF FieldErrors(c) # {} THEN FieldErrors(c)
    ELSE IF validate_command_fields(c) THEN {"validate_command_fields"}
    ELSE {}

(***************************************************************************)
(* Loosely typed command fields.  A raw value is one of                    *)
(*   <<"absent">>      the key is not in the command                       *)
(*   <<"null">>        None                                                *)
(*   <<"bool", b>>     a bool                                              *)
(*   <<"int", n>>      an int                                              *)
(*   <<"float", t>>    a finite float, t in tenths                         *)
(*   <<"nan">>         a non-finite float                                  *)
(*   <<"str", s>>      a str (a character sequence)                        *)
(* cmd.get(k) maps absent to None; "k in cmd" tells them apart.            *)
(***************************************************************************)
Absent == <<"absent">>

Null == <<"null">>

Tag(raw) == raw[1]

Val(raw) == raw[2]

IsNull(raw) == Tag(raw) \in {"absent", "null"}

Digits == <<"0", "1", "2", "3", "4", "5", "6", "7", "8", "9">>

IsDigit(c) == \E i \in 1..10 : Digits[i] = c

DigitVal(c) == (CHOOSE i \in 1..10 : Digits[i] = c) - 1

\* the value of a non-empty all-digit string
RECURSIVE DigitsVal(_)
DigitsVal(s) ==
    IF s = <<>> THEN 0 ELSE 10 * DigitsVal(SubSeq(s, 1, Len(s) - 1)) + DigitVal(s[Len(s)])

AllDigits(s) == s # <<>> /\ \A i \in 1..Len(s) : IsDigit(s[i])

\* int(text, 10) of an already stripped text: an optional sign and digits.
\* None stands for ValueError.
ParseInt(s) ==
    IF s # <<>> /\ Head(s) \in {"-", "+"}
    THEN IF AllDigits(Tail(s))
         THEN Some((IF Head(s) = "-" THEN -1 ELSE 1) * DigitsVal(Tail(s)))
         ELSE None
    ELSE IF AllDigits(s) THEN Some(DigitsVal(s)) ELSE None

\* float(text) of an already stripped text, in tenths: an integer part with
\* an optional sign, or "inf" / "nan".  None stands for ValueError;
\* <<"nan">> for a parsed non-finite value.
ParseFloat(s) ==
    IF s \in {<<"i", "n", "f">>, <<"n", "a", "n">>} THEN <<"nan">>
    ELSE IF IsNone(ParseInt(s)) THEN <<"error">>
    ELSE <<"float", 10 * Get(ParseInt(s))>>

_coerce_optional_time(value) ==
    CASE IsNull(value) -> None
      [] Tag(value) = "bool" -> None
      [] Tag(value) = "int" -> Some(10 * Val(value))
      [] Tag(value) = "float" -> Some(Val(value))
      [] Tag(value) = "nan" -> None
      [] Tag(value) = "str" ->
            IF Strip(Val(value)) = <<>> THEN None
            ELSE IF Tag(ParseFloat(Strip(Val(value)))) = "float"
                 THEN Some(Val(ParseFloat(Strip(Val(value)))))
                 ELSE None
      [] OTHER -> None

_coerce_idx(value) ==
    CASE IsNull(value) -> None
      [] Tag(value) = "bool" -> None
      [] Tag(value) = "int" -> Some(Val(value))
      [] Tag(value) = "str" ->
            IF Strip(Val(value)) = <<>> THEN None ELSE ParseInt(Strip(Val(value)))
      [] OTHER -> None

(***************************************************************************)
(* parse_timer_preset.  A preset is a str; split(":") is computed.         *)
(***************************************************************************)
RECURSIVE Split(_, _)
Split(s, sep) ==
    IF \A i \in 1..Len(s) : s[i] # sep THEN <<s>>
    ELSE LET k == CHOOSE i \in 1..Len(s) : s[i] = sep /\ \A j \in 1..(i - 1) : s[j] # sep
         IN <<SubSeq(s, 1, k - 1)>> \o Split(SubSeq(s, k + 1, Len(s)), sep)

\* int(x or 0): the empty text counts as 0; int() strips whitespace itself.
IntOrZero(s) == IF s = <<>> THEN Some(0) ELSE ParseInt(Strip(s))

\* preset: an optional str.  None when parsing fails.
parse_timer_preset(preset) ==
    IF IsNone(preset) \/ Get(preset) = <<>> THEN None
    ELSE LET parts == Split(Get(preset), ":")
         IN IF Len(parts) # 2 THEN None
            ELSE IF IsNone(IntOrZero(parts[1])) \/ IsNone(IntOrZero(parts[2])) THEN None
            ELSE Some(Get(IntOrZero(parts[1])) * 60 + Get(IntOrZero(parts[2])))

(***************************************************************************)
(* Dicts: functions from keys to values                                    *)
(***************************************************************************)
EmptyMap == [k \in {} |-> None]

HasKey(m, k) == k \in DOMAIN m

Put(m, k, v) == (k :> v) @@ m

Pop(m, k) == [x \in (DOMAIN m) \ {k} |-> m[x]]

(***************************************************************************)
(* default_state                                                           *)
(***************************************************************************)
\* session_id: an optional non-empty id; uuid: the value uuid.uuid4() yields.
\* The keys "scores" and "times" are not in a fresh state: None.
default_state(session_id, uuid) ==
    [initiated |-> FALSE,
     holdsCount |-> 0,
     currentClimber |-> <<>>,
     preparingClimber |-> <<>>,
     started |-> FALSE,
     timerState |-> "idle",
     holdCount |-> 0,
     routeIndex |-> 1,
     routesCount |-> 1,
     holdsCounts |-> <<>>,
     competitors |-> <<>>,
     categorie |-> <<>>,
     lastRegisteredTime |-> None,
     remaining |-> None,
     timerPreset |-> None,
     timerPresetSec |-> None,
     timerRemainingSec |-> None,
     timerEndsAtMs |-> None,
     timeCriterionEnabled |-> FALSE,
     timeTiebreakPreference |-> None,
     timeTiebreakResolvedFingerprint |-> None,
     timeTiebreakResolvedDecision |-> None,
     timeTiebreakDecisions |-> EmptyMap,
     prevRoundsTiebreakPreference |-> None,
     prevRoundsTiebreakResolvedFingerprint |-> None,
     prevRoundsTiebreakResolvedDecision |-> None,
     prevRoundsTiebreakDecisions |-> EmptyMap,
     prevRoundsTiebreakOrders |-> EmptyMap,
     prevRoundsTiebreakRanks |-> EmptyMap,
     sessionId |-> IF IsNone(session_id) THEN Some(uuid) ELSE session_id,
     boxVersion |-> 0,
     scores |-> None,
     times |-> None]

\* state.get("scores") or {} (and the same for "times")
DictOrEmpty(o) == IF IsNone(o) THEN EmptyMap ELSE Get(o)

(***************************************************************************)
(* Commands: one record shape, every field absent unless set               *)
(***************************************************************************)
Cmd(type) ==
    [type |-> type,
     sessionId |-> None,
     boxVersion |-> None,
     routeIndex |-> None,
     holdsCount |-> None,
     routesCount |-> None,
     holdsCounts |-> None,
     competitors |-> None,
     categorie |-> None,
     timerPreset |-> None,
     delta |-> None,
     registeredTime |-> Absent,
     remaining |-> None,
     idx |-> Absent,
     competitorIdx |-> Absent,
     competitor |-> None,
     score |-> None,
     timeCriterionEnabled |-> None,
     timeTiebreakDecision |-> None,
     timeTiebreakFingerprint |-> Absent,
     prevRoundsTiebreakDecision |-> None,
     prevRoundsTiebreakFingerprint |-> Absent,
     prevRoundsTiebreakOrder |-> Absent,
     prevRoundsTiebreakRanksByName |-> Absent,
     resetTimer |-> FALSE,
     clearProgress |-> FALSE,
     unmarkAll |-> FALSE]

(***************************************************************************)
(* _normalize_competitors                                                  *)
(* A raw entry is <<"dict", [nume |-> raw, marked |-> raw]>> or a value of *)
(* another type.  The optional "club" of an entry is carried by no         *)
(* transition and is left out.                                             *)
(***************************************************************************)
LowerCase(c) ==
    CASE c = "Y" -> "y" [] c = "E" -> "e" [] c = "S" -> "s" [] c = "O" -> "o"
      [] c = "N" -> "n" [] c = "T" -> "t" [] c = "R" -> "r" [] c = "U" -> "u"
      [] OTHER -> c

Lower(s) == [i \in 1..Len(s) |-> LowerCase(s[i])]

MarkedTrueWords ==
    {<<"1">>, <<"t", "r", "u", "e">>, <<"y", "e", "s">>, <<"y">>, <<"o", "n">>}

\* the bool a "marked" value is coerced to
MarkedBool(marked_val) ==
    CASE Tag(marked_val) = "absent" -> FALSE
      [] Tag(marked_val) = "bool" -> Val(marked_val)
      [] Tag(marked_val) = "int" -> Val(marked_val) # 0
      [] Tag(marked_val) = "float" -> Val(marked_val) >= 10 \/ Val(marked_val) <= -10
      [] Tag(marked_val) = "str" -> Lower(Strip(Val(marked_val))) \in MarkedTrueWords
      [] OTHER -> FALSE

\* whether the loop body appends an entry for comp
EntryKept(comp) ==
    /\ Tag(comp) = "dict"
    /\ Tag(Val(comp).nume) = "str"
    /\ sanitize_competitor_name(Val(Val(comp).nume)) # <<>>
    /\ Tag(Val(comp).marked) # "nan"

NormalizedEntry(comp) ==
    [nume |-> sanitize_competitor_name(Val(Val(comp).nume)),
     marked |-> MarkedBool(Val(comp).marked)]

RECURSIVE NormalizeList(_)
NormalizeList(comps) ==
    IF comps = <<>> THEN <<>>
    ELSE (IF EntryKept(Head(comps)) THEN <<NormalizedEntry(Head(comps))>> ELSE <<>>)
         \o NormalizeList(Tail(comps))

\* competitors: an optional list of raw entries
_normalize_competitors(competitors) ==
    IF IsNone(competitors) THEN <<>> ELSE NormalizeList(Get(competitors))

(***************************************************************************)
(* _compute_preparing_climber                                              *)
(***************************************************************************)
\* index of the first entry named name, 0 if none
FirstIndexOf(competitors, name) ==
    IF \E i \in 1..Len(competitors) : competitors[i].nume = name
    THEN CHOOSE i \in 1..Len(competitors) :
            /\ competitors[i].nume = name
            /\ \A j \in 1..(i - 1) : competitors[j].nume # name
    ELSE 0

\* the first unmarked entry with a non-blank name after position from
NextUnmarkedAfter(competitors, from) ==
    LET ok(i) == Strip(competitors[i].nume) # <<>> /\ ~competitors[i].marked
        cand == {i \in (from + 1)..Len(competitors) : ok(i)}
    IN IF cand = {} THEN <<>>
       ELSE competitors[CHOOSE i \in cand : \A j \in cand : i <= j].nume

_compute_preparing_climber(competitors, current_climber) ==
    IF competitors = <<>> \/ current_climber = <<>> THEN <<>>
    ELSE IF FirstIndexOf(competitors, current_climber) = 0 THEN <<>>
    ELSE NextUnmarkedAfter(competitors, FirstIndexOf(competitors, current_climber))

(***************************************************************************)
(* _apply_transition, one operator per command type.  Each yields a        *)
(* CommandOutcome [state, cmd_payload, snapshot_required], with raised set *)
(* when the code raises ValueError (the state is then the input state).    *)
(***************************************************************************)
Outcome(new_state, payload, snapshot_required) ==
    [state |-> new_state, cmd_payload |-> payload,
     snapshot_required |-> snapshot_required, raised |-> FALSE]

Raised(st, cmd) ==
    [state |-> st, cmd_payload |-> cmd, snapshot_required |-> FALSE, raised |-> TRUE]

\* cmd.get(k) or d, for an optional int
IntOr(o, d) == IF IsNone(o) \/ Get(o) = 0 THEN d ELSE Get(o)

\* the queue heads INIT_ROUTE installs
InitCurrentClimber(competitors) ==
    IF Len(competitors) > 0 THEN competitors[1].nume ELSE <<>>

InitPreparingClimber(competitors) ==
    IF Len(competitors) > 1 THEN competitors[2].nume ELSE <<>>

InitRouteScoresKeepTiebreaks(st, incoming_route_index) ==
    [st EXCEPT
       !.scores = IF incoming_route_index = 1 THEN Some(EmptyMap)
                  ELSE Some(DictOrEmpty(st.scores)),
       !.times = IF incoming_route_index = 1 THEN Some(EmptyMap)
                 ELSE Some(DictOrEmpty(st.times))]

\* the score/time/tiebreak part of INIT_ROUTE
InitRouteScores(st, incoming_route_index) ==
    IF incoming_route_index = 1
    THEN [st EXCEPT
            !.scores = Some(EmptyMap),
            !.times = Some(EmptyMap),
            !.timeTiebreakDecisions = EmptyMap,
            !.timeTiebreakResolvedFingerprint = None,
            !.timeTiebreakResolvedDecision = None,
            !.prevRoundsTiebreakDecisions = EmptyMap,
            !.prevRoundsTiebreakOrders = EmptyMap,
            !.prevRoundsTiebreakRanks = EmptyMap,
            !.prevRoundsTiebreakResolvedFingerprint = None,
            !.prevRoundsTiebreakResolvedDecision = None]
    ELSE [st EXCEPT
            !.scores = Some(DictOrEmpty(st.scores)),
            !.times = Some(DictOrEmpty(st.times))]

InitRouteVersionKept(st) == st.boxVersion

InitRouteVersion(st) == st.boxVersion + 1

InitRoutePayloadAsSent(st, cmd) == cmd

\* the echoed INIT_ROUTE carries the state's sessionId
InitRoutePayload(st, cmd) == [cmd EXCEPT !.sessionId = st.sessionId]

\* INIT_ROUTE, given the normalized roster
InitRouteWith(st, cmd, incoming_route_index, competitors) ==
    LET s1 == [st EXCEPT
                 !.boxVersion = InitRouteVersion(st),
                 !.initiated = TRUE,
                 !.holdsCount = IntOr(cmd.holdsCount, 0),
                 !.routeIndex = incoming_route_index,
                 !.routesCount = IF IsNone(cmd.routesCount) THEN @ ELSE Get(cmd.routesCount),
                 !.holdsCounts = IF IsNone(cmd.holdsCounts) THEN @ ELSE Get(cmd.holdsCounts),
                 !.competitors = competitors,
                 !.currentClimber = InitCurrentClimber(competitors),
                 !.preparingClimber = InitPreparingClimber(competitors),
                 !.started = FALSE,
                 !.timerState = "idle",
                 !.holdCount = 0,
                 !.lastRegisteredTime = None,
                 !.remaining = None,
                 !.categorie = IF IsNone(cmd.categorie) \/ Get(cmd.categorie) = <<>>
                               THEN @ ELSE Get(cmd.categorie),
                 !.timerPreset = IF IsNone(cmd.timerPreset) \/ Get(cmd.timerPreset) = <<>>
                                 THEN @ ELSE cmd.timerPreset,
                 !.timerPresetSec = IF IsNone(cmd.timerPreset) \/ Get(cmd.timerPreset) = <<>>
                                    THEN @ ELSE parse_timer_preset(cmd.timerPreset)]
    IN Outcome(InitRouteScores(s1, incoming_route_index), InitRoutePayload(st, cmd), TRUE)

ApplyInitRoute(st, cmd) ==
    InitRouteWith(st, cmd, IntOr(cmd.routeIndex, 1), _normalize_competitors(cmd.competitors))

ApplyStartTimer(st, cmd) ==
    Outcome([st EXCEPT !.started = TRUE, !.timerState = "running",
                       !.lastRegisteredTime = None, !.remaining = None],
            cmd, TRUE)

ApplyStopTimerStillStarted(st, cmd) ==
    Outcome([st EXCEPT !.timerState = "paused"], cmd, TRUE)

ApplyStopTimer(st, cmd) ==
    Outcome([st EXCEPT !.started = FALSE, !.timerState = "paused"], cmd, TRUE)

ApplyResumeTimer(st, cmd) ==
    Outcome([st EXCEPT !.started = TRUE, !.timerState = "running",
                       !.lastRegisteredTime = None],
            cmd, TRUE)

ProgressCountUnclamped(holdCount, holdsCount, deltaOpt) ==
    IF holdCount + IntOr(deltaOpt, 10) < 0 THEN 0 ELSE holdCount + IntOr(deltaOpt, 10)

\* holdCount and delta in tenths; int() truncates a non-negative count
ProgressCount(holdCount, holdsCount, deltaOpt) ==
    LET delta == IntOr(deltaOpt, 10)
        raw == IF delta = 10 THEN (holdCount \div 10) * 10 + 10 ELSE holdCount + delta
        floored == IF raw < 0 THEN 0 ELSE raw
    IN IF holdsCount > 0 /\ floored > 10 * holdsCount THEN 10 * holdsCount ELSE floored

ApplyProgressUpdate(st, cmd) ==
    Outcome([st EXCEPT !.holdCount = ProgressCount(st.holdCount, st.holdsCount, cmd.delta)],
            cmd, TRUE)

ApplyRegisterTime(st, cmd) ==
    LET candidate == _coerce_optional_time(cmd.registeredTime)
    IN Outcome(IF Tag(cmd.registeredTime) # "absent" /\ ~IsNone(candidate)
               THEN [st EXCEPT !.lastRegisteredTime = candidate]
               ELSE st,
               cmd, TRUE)

ApplyTimerSyncStops(st, cmd) ==
    Outcome([st EXCEPT !.remaining = cmd.remaining, !.started = FALSE], cmd, FALSE)

ApplyTimerSync(st, cmd) ==
    Outcome([st EXCEPT !.remaining = cmd.remaining], cmd, FALSE)

\* float(preset_sec) in tenths, None when there is no preset_sec
SecToRemaining(preset_sec) ==
    IF IsNone(preset_sec) THEN None ELSE Some(10 * Get(preset_sec))

ApplySetTimerPreset(st, cmd) ==
    LET s1 == [st EXCEPT !.timerPreset = cmd.timerPreset,
                         !.timerPresetSec = parse_timer_preset(cmd.timerPreset)]
        s2 == IF st.timerState \in {"running", "paused"} THEN s1
              ELSE [s1 EXCEPT !.remaining = SecToRemaining(s1.timerPresetSec)]
    IN Outcome(IF IsNone(cmd.timerPreset) THEN st ELSE s2, cmd, TRUE)

(***************************************************************************)
(* SUBMIT_SCORE                                                            *)
(***************************************************************************)
\* raw_idx not in (None, "")
IdxGiven(raw) == ~IsNull(raw) /\ raw # <<"str", <<>>>>

\* Which index field the code reads: "idx" when the key is in the command,
\* else "competitorIdx" when that key is; <<"absent">> when neither.
SubmitRawIdx(cmd) ==
    IF Tag(cmd.idx) # "absent" THEN cmd.idx
    ELSE IF Tag(cmd.competitorIdx) # "absent" THEN cmd.competitorIdx
    ELSE Absent

\* the resolved index, None when no index is used
SubmitIdx(cmd) ==
    IF IdxGiven(SubmitRawIdx(cmd)) THEN _coerce_idx(SubmitRawIdx(cmd)) ELSE None

\* the conditions under which SUBMIT_SCORE raises ValueError
SubmitRaises(st, cmd) ==
    \/ IdxGiven(SubmitRawIdx(cmd)) /\ IsNone(_coerce_idx(SubmitRawIdx(cmd)))
    \/ /\ ~IsNone(SubmitIdx(cmd))
       /\ \/ Get(SubmitIdx(cmd)) < 0
          \/ Get(SubmitIdx(cmd)) >= Len(st.competitors)
          \/ Strip(st.competitors[Get(SubmitIdx(cmd)) + 1].nume) = <<>>

\* competitor_name: an optional str
SubmitName(st, cmd) ==
    IF IsNone(SubmitIdx(cmd)) THEN cmd.competitor
    ELSE Some(st.competitors[Get(SubmitIdx(cmd)) + 1].nume)

\* effective_time
SubmitTime(st, cmd) ==
    IF IsNull(cmd.registeredTime) THEN st.lastRegisteredTime
    ELSE _coerce_optional_time(cmd.registeredTime)

RECURSIVE PadTo(_, _)
PadTo(arr, n) == IF Len(arr) >= n THEN arr ELSE PadTo(Append(arr, None), n)

\* an array built anew for the route, dropping what the name had
SetRouteEntryAnew(m, name, route_idx, v) ==
    Put(m, name, [PadTo(<<>>, route_idx + 1) EXCEPT ![route_idx + 1] = Some(v)])

\* arr = m.get(name) or []; pad with None; arr[route_idx] = v; m[name] = arr
SetRouteEntry(m, name, route_idx, v) ==
    LET arr == IF HasKey(m, name) THEN m[name] ELSE <<>>
    IN Put(m, name, [PadTo(arr, route_idx + 1) EXCEPT ![route_idx + 1] = Some(v)])

\* marks the first entry named name
MarkFirst(competitors, name) ==
    IF IsNone(name) \/ FirstIndexOf(competitors, Get(name)) = 0 THEN competitors
    ELSE [competitors EXCEPT ![FirstIndexOf(competitors, Get(name))].marked = TRUE]

SubmitNextCurrentAlways(st, competitors, name) ==
    _compute_preparing_climber(competitors, st.currentClimber)

\* the queue part of SUBMIT_SCORE: currentClimber after the submission
SubmitNextCurrent(st, competitors, name) ==
    IF ~IsNone(name) /\ Get(name) # <<>> /\ Get(name) = st.currentClimber
    THEN _compute_preparing_climber(competitors, st.currentClimber)
    ELSE st.currentClimber

ApplySubmitScore(st, cmd) ==
    LET effective_time == SubmitTime(st, cmd)
        name == SubmitName(st, cmd)
        named == ~IsNone(name) /\ Get(name) # <<>>
        route_idx == IF st.routeIndex - 1 > 0 THEN st.routeIndex - 1 ELSE 0
        scores == IF IsNone(cmd.score) THEN DictOrEmpty(st.scores)
                  ELSE SetRouteEntry(DictOrEmpty(st.scores), Get(name), route_idx,
                                     Get(cmd.score))
        times == IF IsNone(effective_time) THEN DictOrEmpty(st.times)
                 ELSE SetRouteEntry(DictOrEmpty(st.times), Get(name), route_idx,
                                    Get(effective_time))
        competitors == MarkFirst(st.competitors, name)
        current == SubmitNextCurrent(st, competitors, name)
        s1 == [st EXCEPT
                 !.scores = IF named THEN Some(scores) ELSE @,
                 !.times = IF named THEN Some(times) ELSE @,
                 !.started = FALSE,
                 !.timerState = "idle",
                 !.holdCount = 0,
                 !.lastRegisteredTime = effective_time,
                 !.remaining = None]
        s2 == IF st.competitors = <<>> THEN s1
              ELSE [s1 EXCEPT
                      !.competitors = competitors,
                      !.currentClimber = current,
                      !.preparingClimber = _compute_preparing_climber(competitors, current)]
        payload == [cmd EXCEPT
                      !.registeredTime = IF IsNone(effective_time) THEN Null
                                         ELSE <<"float", Get(effective_time)>>,
                      !.competitor = IF IsNone(SubmitIdx(cmd)) THEN @ ELSE name]
    IN IF SubmitRaises(st, cmd) THEN Raised(st, cmd) ELSE Outcome(s2, payload, TRUE)

ApplySetTimeCriterion(st, cmd) ==
    Outcome(IF IsNone(cmd.timeCriterionEnabled) THEN st
            ELSE [st EXCEPT !.timeCriterionEnabled = Get(cmd.timeCriterionEnabled)],
            cmd, TRUE)

(***************************************************************************)
(* SET_TIME_TIEBREAK_DECISION / SET_PREV_ROUNDS_TIEBREAK_DECISION          *)
(***************************************************************************)
\* decision: an optional word; fingerprint: a raw value
DecisionValidAny(decision) == ~IsNone(decision)

DecisionValid(decision) == ~IsNone(decision) /\ Get(decision) \in {"yes", "no"}

FingerprintValid(fingerprint) ==
    Tag(fingerprint) = "str" /\ Strip(Val(fingerprint)) # <<>>

\* a decision that moves the resolved pointers and persists nothing
SetTimeTiebreakPointersOnly(st, cmd) ==
    IF ~DecisionValid(cmd.timeTiebreakDecision) \/ ~FingerprintValid(cmd.timeTiebreakFingerprint)
    THEN Raised(st, cmd)
    ELSE Outcome([st EXCEPT
                    !.timeTiebreakPreference = cmd.timeTiebreakDecision,
                    !.timeTiebreakResolvedFingerprint =
                        Some(Strip(Val(cmd.timeTiebreakFingerprint))),
                    !.timeTiebreakResolvedDecision = cmd.timeTiebreakDecision],
                 cmd, TRUE)

ApplySetTimeTiebreakDecision(st, cmd) ==
    LET decision == Get(cmd.timeTiebreakDecision)
        normalized_fingerprint == Strip(Val(cmd.timeTiebreakFingerprint))
        s1 == [st EXCEPT
                 !.timeTiebreakDecisions = Put(@, normalized_fingerprint, decision),
                 !.timeTiebreakPreference = Some(decision),
                 !.timeTiebreakResolvedFingerprint = Some(normalized_fingerprint),
                 !.timeTiebreakResolvedDecision = Some(decision)]
        payload == [cmd EXCEPT
                      !.timeTiebreakFingerprint = <<"str", normalized_fingerprint>>]
    IN IF ~DecisionValid(cmd.timeTiebreakDecision)
          \/ ~FingerprintValid(cmd.timeTiebreakFingerprint)
       THEN Raised(st, cmd)
       ELSE Outcome(s1, payload, TRUE)

\* a raw list item or dict key that the loops keep: a non-blank str
NameKept(raw) == Tag(raw) = "str" /\ Strip(Val(raw)) # <<>>

InSeq(x, seq) == \E i \in 1..Len(seq) : seq[i] = x

\* normalized_order: trimmed, non-empty, first occurrences, in arrival order
RECURSIVE NormalizeOrder(_, _)
NormalizeOrder(items, acc) ==
    IF items = <<>> THEN acc
    ELSE IF NameKept(Head(items)) /\ ~InSeq(Strip(Val(Head(items))), acc)
         THEN NormalizeOrder(Tail(items), Append(acc, Strip(Val(Head(items)))))
         ELSE NormalizeOrder(Tail(items), acc)

RankValid(raw_rank) == Tag(raw_rank) = "int" /\ Val(raw_rank) > 0

\* normalized_ranks_map of a list of <<raw_name, raw_rank>> items
RECURSIVE NormalizeRanks(_, _)
NormalizeRanks(pairs, acc) ==
    IF pairs = <<>> THEN acc
    ELSE IF NameKept(Head(pairs)[1])
         THEN NormalizeRanks(Tail(pairs),
                             Put(acc, Strip(Val(Head(pairs)[1])), Val(Head(pairs)[2])))
         ELSE NormalizeRanks(Tail(pairs), acc)

PrevRoundsRaises(cmd) ==
    \/ ~DecisionValid(cmd.prevRoundsTiebreakDecision)
    \/ ~FingerprintValid(cmd.prevRoundsTiebreakFingerprint)
    \/ ~IsNull(cmd.prevRoundsTiebreakOrder) /\ Tag(cmd.prevRoundsTiebreakOrder) # "list"
    \/ /\ ~IsNull(cmd.prevRoundsTiebreakRanksByName)
       /\ Tag(cmd.prevRoundsTiebreakRanksByName) # "dict"
    \/ /\ Tag(cmd.prevRoundsTiebreakRanksByName) = "dict"
       /\ \E i \in 1..Len(Val(cmd.prevRoundsTiebreakRanksByName)) :
             /\ NameKept(Val(cmd.prevRoundsTiebreakRanksByName)[i][1])
             /\ ~RankValid(Val(cmd.prevRoundsTiebreakRanksByName)[i][2])

\* an entry that a decision without a value leaves where it is
StoreOrKeep(m, fingerprint, decision, value, empty) ==
    IF decision = "yes" /\ value # empty THEN Put(m, fingerprint, value) ELSE m

\* the entry of prevRoundsTiebreakOrders / prevRoundsTiebreakRanks for a decision
StoreOrPop(m, fingerprint, decision, value, empty) ==
    IF decision = "yes" /\ value # empty THEN Put(m, fingerprint, value)
    ELSE Pop(m, fingerprint)

ApplySetPrevRoundsTiebreakDecision(st, cmd) ==
    LET decision == Get(cmd.prevRoundsTiebreakDecision)
        normalized_fingerprint == Strip(Val(cmd.prevRoundsTiebreakFingerprint))
        normalized_order ==
            IF IsNull(cmd.prevRoundsTiebreakOrder) THEN <<>>
            ELSE NormalizeOrder(Val(cmd.prevRoundsTiebreakOrder), <<>>)
        normalized_ranks_map ==
            IF IsNull(cmd.prevRoundsTiebreakRanksByName) THEN EmptyMap
            ELSE NormalizeRanks(Val(cmd.prevRoundsTiebreakRanksByName), EmptyMap)
        s1 == [st EXCEPT
                 !.prevRoundsTiebreakDecisions = Put(@, normalized_fingerprint, decision),
                 !.prevRoundsTiebreakOrders =
                     StoreOrPop(@, normalized_fingerprint, decision, normalized_order, <<>>),
                 !.prevRoundsTiebreakRanks =
                     StoreOrPop(@, normalized_fingerprint, decision, normalized_ranks_map,
                                EmptyMap),
                 !.prevRoundsTiebreakPreference = Some(decision),
                 !.prevRoundsTiebreakResolvedFingerprint = Some(normalized_fingerprint),
                 !.prevRoundsTiebreakResolvedDecision = Some(decision)]
        payload == [cmd EXCEPT
                      !.prevRoundsTiebreakFingerprint = <<"str", normalized_fingerprint>>,
                      !.prevRoundsTiebreakOrder = <<"list", normalized_order>>,
                      !.prevRoundsTiebreakRanksByName = <<"map", normalized_ranks_map>>]
    IN IF PrevRoundsRaises(cmd) THEN Raised(st, cmd) ELSE Outcome(s1, payload, TRUE)

(***************************************************************************)
(* RESET_PARTIAL / RESET_BOX                                               *)
(***************************************************************************)
UnmarkAllKeepsMarks(competitors) == competitors

UnmarkAll(competitors) ==
    [i \in 1..Len(competitors) |-> [competitors[i] EXCEPT !.marked = FALSE]]

ResetPartialRestartSameSession(st, uuid) ==
    [st EXCEPT
       !.initiated = FALSE,
       !.routeIndex = 1,
       !.scores = Some(EmptyMap),
       !.times = Some(EmptyMap),
       !.competitors = UnmarkAll(@),
       !.currentClimber = <<>>,
       !.preparingClimber = <<>>]

\* the unmarkAll branch: back to the pre-init state, under a new sessionId
ResetPartialRestart(st, uuid) ==
    [st EXCEPT
       !.initiated = FALSE,
       !.sessionId = Some(uuid),
       !.routeIndex = 1,
       !.holdsCount = IF st.holdsCounts # <<>> THEN st.holdsCounts[1] ELSE @,
       !.scores = Some(EmptyMap),
       !.times = Some(EmptyMap),
       !.lastRegisteredTime = None,
       !.timeTiebreakDecisions = EmptyMap,
       !.timeTiebreakResolvedFingerprint = None,
       !.timeTiebreakResolvedDecision = None,
       !.prevRoundsTiebreakDecisions = EmptyMap,
       !.prevRoundsTiebreakOrders = EmptyMap,
       !.prevRoundsTiebreakRanks = EmptyMap,
       !.prevRoundsTiebreakResolvedFingerprint = None,
       !.prevRoundsTiebreakResolvedDecision = None,
       !.competitors = UnmarkAll(@),
       !.currentClimber = <<>>,
       !.preparingClimber = <<>>]

\* a timer reset that leaves the registered time
ResetTimerKeepsTime(st) ==
    [st EXCEPT !.started = FALSE, !.timerState = "idle",
               !.remaining = SecToRemaining(st.timerPresetSec)]

ResetTimer(st) ==
    LET preset_sec == IF IsNone(st.timerPresetSec) THEN parse_timer_preset(st.timerPreset)
                      ELSE st.timerPresetSec
    IN [st EXCEPT
          !.started = FALSE,
          !.timerState = "idle",
          !.remaining = SecToRemaining(preset_sec),
          !.lastRegisteredTime = None]

ApplyResetPartial(st, cmd, uuid) ==
    LET reset_timer == cmd.resetTimer \/ cmd.unmarkAll
        clear_progress == cmd.clearProgress \/ cmd.unmarkAll
        s1 == IF cmd.unmarkAll THEN ResetPartialRestart(st, uuid) ELSE st
        s2 == IF reset_timer THEN ResetTimer(s1) ELSE s1
        s3 == IF clear_progress THEN [s2 EXCEPT !.holdCount = 0] ELSE s2
    IN Outcome(s3, cmd, TRUE)

ApplyResetBox(st, cmd, uuid) ==
    Outcome([st EXCEPT
               !.initiated = FALSE,
               !.currentClimber = <<>>,
               !.preparingClimber = <<>>,
               !.started = FALSE,
               !.timerState = "idle",
               !.holdCount = 0,
               !.lastRegisteredTime = None,
               !.remaining = None,
               !.scores = Some(EmptyMap),
               !.times = Some(EmptyMap),
               !.routesCount = 1,
               !.holdsCounts = <<>>,
               !.competitors = <<>>,
               !.categorie = <<>>,
               !.timerPreset = None,
               !.timerPresetSec = None,
               !.timeTiebreakPreference = None,
               !.timeTiebreakResolvedFingerprint = None,
               !.timeTiebreakResolvedDecision = None,
               !.timeTiebreakDecisions = EmptyMap,
               !.prevRoundsTiebreakPreference = None,
               !.prevRoundsTiebreakResolvedFingerprint = None,
               !.prevRoundsTiebreakResolvedDecision = None,
               !.prevRoundsTiebreakDecisions = EmptyMap,
               !.prevRoundsTiebreakOrders = EmptyMap,
               !.prevRoundsTiebreakRanks = EmptyMap,
               !.sessionId = Some(uuid)],
            cmd, TRUE)

\* a command type without a branch (REQUEST_STATE, ACTIVE_CLIMBER, ...)
ApplyOther(st, cmd) == Outcome(st, cmd, FALSE)

_apply_transition(st, cmd, uuid) ==
    CASE cmd.type = "INIT_ROUTE" -> ApplyInitRoute(st, cmd)
      [] cmd.type = "START_TIMER" -> ApplyStartTimer(st, cmd)
      [] cmd.type = "STOP_TIMER" -> ApplyStopTimer(st, cmd)
      [] cmd.type = "RESUME_TIMER" -> ApplyResumeTimer(st, cmd)
      [] cmd.type = "PROGRESS_UPDATE" -> ApplyProgressUpdate(st, cmd)
      [] cmd.type = "REGISTER_TIME" -> ApplyRegisterTime(st, cmd)
      [] cmd.type = "TIMER_SYNC" -> ApplyTimerSync(st, cmd)
      [] cmd.type = "SET_TIMER_PRESET" -> ApplySetTimerPreset(st, cmd)
      [] cmd.type = "SUBMIT_SCORE" -> ApplySubmitScore(st, cmd)
      [] cmd.type = "SET_TIME_CRITERION" -> ApplySetTimeCriterion(st, cmd)
      [] cmd.type = "SET_TIME_TIEBREAK_DECISION" -> ApplySetTimeTiebreakDecision(st, cmd)
      [] cmd.type = "SET_PREV_ROUNDS_TIEBREAK_DECISION" ->
            ApplySetPrevRoundsTiebreakDecision(st, cmd)
      [] cmd.type = "RESET_PARTIAL" -> ApplyResetPartial(st, cmd, uuid)
      [] cmd.type = "RESET_BOX" -> ApplyResetBox(st, cmd, uuid)
      [] OTHER -> ApplyOther(st, cmd)

(***************************************************************************)
(* validate_session_and_version                                            *)
(***************************************************************************)
\* The result: "accept" for None, else the ValidationError's kind, with its
\* optional status_code.
GateResult(kind, status_code) == [kind |-> kind, status_code |-> status_code]

GateVersionFirst(st, cmd, require_session) ==
    IF require_session /\ (IsNone(cmd.sessionId) \/ Get(cmd.sessionId) = 0)
    THEN GateResult("missing_session", Some(400))
    ELSE IF ~IsNone(cmd.boxVersion) /\ Get(cmd.boxVersion) < st.boxVersion
    THEN GateResult("stale_version", None)
    ELSE IF ~IsNone(cmd.sessionId) /\ Get(cmd.sessionId) # 0
            /\ ~IsNone(st.sessionId) /\ Get(st.sessionId) # 0
            /\ Get(cmd.sessionId) # Get(st.sessionId)
    THEN GateResult("stale_session", None)
    ELSE GateResult("accept", None)

GateEqualVersionOnly(st, cmd, require_session) ==
    IF require_session /\ (IsNone(cmd.sessionId) \/ Get(cmd.sessionId) = 0)
    THEN GateResult("missing_session", Some(400))
    ELSE IF ~IsNone(cmd.sessionId) /\ Get(cmd.sessionId) # 0
            /\ ~IsNone(st.sessionId) /\ Get(st.sessionId) # 0
            /\ Get(cmd.sessionId) # Get(st.sessionId)
    THEN GateResult("stale_session", None)
    ELSE IF ~IsNone(cmd.boxVersion) /\ Get(cmd.boxVersion) + 1 < st.boxVersion
    THEN GateResult("stale_version", None)
    ELSE GateResult("accept", None)

\* The empty str among the session ids (ids are naturals, uuid4 ids are >= 1)
EmptySessionId == 0

\* Python truthiness of an optional session id: None and "" are falsy
Truthy(o) == ~IsNone(o) /\ Get(o) # EmptySessionId

\* st: sessionId (optional id) and boxVersion; cmd: sessionId and boxVersion,
\* both optional.
validate_session_and_version(st, cmd, require_session) ==
    IF require_session /\ ~Truthy(cmd.sessionId)
    THEN GateResult("missing_session", Some(400))
    ELSE IF Truthy(cmd.sessionId) /\ Truthy(st.sessionId)
            /\ Get(cmd.sessionId) # Get(st.sessionId)
    THEN GateResult("stale_session", None)
    ELSE IF ~IsNone(cmd.boxVersion) /\ Get(cmd.boxVersion) < st.boxVersion
    THEN GateResult("stale_version", None)
    ELSE GateResult("accept", None)

(***************************************************************************)
(* Bounds of the model and the command payloads the environment sends.     *)
(* The environment of one behaviour draws its commands from one family     *)
(* (focus); the transition operators above are the same for all.           *)
(***************************************************************************)
MaxVersion == 2     \* INIT_ROUTE is applied while boxVersion < MaxVersion

MaxQueueVersion == 1    \* the same for focus queue, which draws many rosters

MaxSessions == 2    \* a reset draws a new sessionId while fewer were drawn

MaxRoster == 3      \* longest competitors list of an INIT_ROUTE (focus queue)

MaxRoute == 3       \* largest routeIndex of an INIT_ROUTE (focus scores)

MaxHold == 2        \* PROGRESS_UPDATE is applied while holdCount < MaxHold holds

Foci == {"epoch", "queue", "scores", "tiebreak", "timer", "progress", "resolve",
         "times"}

A == <<"A">>

B == <<"B">>

C == <<"C">>

Str(s) == <<"str", s>>

Entry(nume, marked) == <<"dict", [nume |-> nume, marked |-> marked]>>

\* sequences over S of length 0..n
RECURSIVE SeqsUpTo(_, _)
SeqsUpTo(S, n) ==
    IF n = 0 THEN {<<>>}
    ELSE SeqsUpTo(S, n - 1)
         \cup {Append(q, x) : q \in {r \in SeqsUpTo(S, n - 1) : Len(r) = n - 1}, x \in S}

\* a roster with an entry whose name the sanitizer empties and one that is
\* no dict
RosterAB ==
    <<Entry(Str(A), Absent), Entry(Str(<<"<", ">">>), Absent), Str(C),
      Entry(Str(B), Absent)>>

\* entries of the rosters of focus queue: A unmarked, A marked under a name
\* the sanitizer trims, B unmarked by a word
QueueEntries ==
    {Entry(Str(A), Absent), Entry(Str(<<" ", "A", "<">>), <<"bool", TRUE>>),
     Entry(Str(B), Str(<<"n", "o">>))}

\* the rosters of focus queue
QueueRosters == SeqsUpTo(QueueEntries, MaxRoster)

InitRouteCmds(f) ==
    CASE f = "epoch" ->
            {[Cmd("INIT_ROUTE") EXCEPT !.holdsCount = Some(3),
                                       !.competitors = Some(RosterAB),
                                       !.sessionId = sid] :
                sid \in {None, Some(1)}}
      [] f = "queue" ->
            {[Cmd("INIT_ROUTE") EXCEPT !.routeIndex = Some(1), !.holdsCount = Some(3),
                                       !.competitors = Some(r)] :
                r \in QueueRosters}
      [] f = "scores" ->
            {[Cmd("INIT_ROUTE") EXCEPT !.routeIndex = Some(ri), !.holdsCount = Some(3),
                                       !.competitors = Some(RosterAB)] :
                ri \in 1..MaxRoute}
      [] f = "tiebreak" ->
            {[Cmd("INIT_ROUTE") EXCEPT !.routeIndex = Some(ri), !.holdsCount = Some(3),
                                       !.competitors = Some(RosterAB)] :
                ri \in 1..2}
      [] f = "resolve" ->
            {[Cmd("INIT_ROUTE") EXCEPT !.routeIndex = Some(1), !.holdsCount = Some(3),
                                       !.competitors = Some(RosterAB)]}
      [] f = "times" ->
            {[Cmd("INIT_ROUTE") EXCEPT !.routeIndex = Some(2), !.holdsCount = Some(3),
                                       !.competitors = Some(RosterAB)]}
      [] f = "progress" ->
            {[Cmd("INIT_ROUTE") EXCEPT !.routeIndex = Some(2), !.holdsCount = Some(h),
                                       !.holdsCounts = Some(<<1, MaxHold>>),
                                       !.competitors = Some(RosterAB)] :
                h \in {0, MaxHold}}
      [] f = "timer" ->
            {[Cmd("INIT_ROUTE") EXCEPT !.routeIndex = Some(1), !.holdsCount = Some(MaxHold),
                                       !.holdsCounts = Some(<<1, MaxHold>>),
                                       !.routesCount = Some(2),
                                       !.competitors = Some(RosterAB),
                                       !.categorie = Some(<<"U", "1", "6">>),
                                       !.timerPreset = Some(<<"0", "1", ":", "3", "0">>)]}

TimerCmds(f, type) == IF f \in {"timer", "epoch"} THEN {Cmd(type)} ELSE {}

\* the deltas of focus progress, in tenths: absent, 0, 1, 0.1, -0.1, 0.5 and
\* the validator's extremes -10 and 10
ProgressDeltas ==
    {None, Some(0), Some(10), Some(1), Some(-1), Some(5), Some(-100), Some(100)}

ProgressCmds(f) ==
    CASE f = "timer" ->
            {[Cmd("PROGRESS_UPDATE") EXCEPT !.delta = d] : d \in {None, Some(-10)}}
      [] f = "progress" ->
            {[Cmd("PROGRESS_UPDATE") EXCEPT !.delta = d] : d \in ProgressDeltas}
      [] OTHER -> {}

\* the raw registeredTime values of focus times: no key, null, a boolean,
\* 15.5, -5.0, a word, a padded numeral and a non-finite float
TimeValues ==
    {Absent, Null, <<"bool", TRUE>>, <<"float", 155>>, <<"float", -50>>,
     Str(<<"a", "b", "c">>), Str(<<" ", "7">>), <<"nan">>}

RegisterTimeCmds(f) ==
    CASE f = "epoch" ->
            {[Cmd("REGISTER_TIME") EXCEPT !.registeredTime = t] :
                t \in {<<"float", 155>>, Str(<<"a", "b", "c">>)}}
      [] f = "times" ->
            {[Cmd("REGISTER_TIME") EXCEPT !.registeredTime = t] : t \in TimeValues}
      [] OTHER -> {}

TimerSyncCmds(f) ==
    IF f = "timer" THEN {[Cmd("TIMER_SYNC") EXCEPT !.remaining = Some(420)]} ELSE {}

SetTimerPresetCmds(f) ==
    IF f = "timer"
    THEN {[Cmd("SET_TIMER_PRESET") EXCEPT !.timerPreset = Some(<<"0", "5", ":", "0", "0">>)]}
    ELSE {}

\* the raw "idx" values of focus resolve: no key, null, the empty text, the
\* indices around a roster of two, a word, a padded numeral and a boolean
ResolveIdx ==
    {Absent, Null, Str(<<>>), <<"int", 0>>, <<"int", 1>>, <<"int", -1>>,
     <<"int", MaxRoster>>, Str(<<"x">>), Str(<<" ", "1">>), <<"bool", TRUE>>}

\* the raw "competitorIdx" values of focus resolve
ResolveCompetitorIdx == {Absent, <<"int", 1>>, <<"int", MaxRoster>>, Str(<<"x">>)}

SubmitScoreCmds(f) ==
    CASE f \in {"epoch", "timer", "tiebreak"} ->
            {[Cmd("SUBMIT_SCORE") EXCEPT !.competitor = Some(A), !.score = Some(70)]}
      [] f = "progress" -> {}
      [] f = "times" ->
            {[Cmd("SUBMIT_SCORE") EXCEPT !.competitor = Some(A), !.registeredTime = t] :
                t \in TimeValues}
      [] f = "resolve" ->
            {[Cmd("SUBMIT_SCORE") EXCEPT !.idx = i, !.competitorIdx = ci,
                                         !.competitor = c] :
                i \in ResolveIdx, ci \in ResolveCompetitorIdx, c \in {None, Some(A)}}
      [] f = "queue" ->
            {[Cmd("SUBMIT_SCORE") EXCEPT !.competitor = c] :
                c \in {None, Some(A), Some(B), Some(C)}}
            \cup {[Cmd("SUBMIT_SCORE") EXCEPT !.idx = i] :
                    i \in {<<"int", k>> : k \in 0..MaxRoster} \cup {Str(<<"x">>)}}
      [] f = "scores" ->
            {[Cmd("SUBMIT_SCORE") EXCEPT !.competitor = Some(A), !.score = Some(70),
                                         !.registeredTime = <<"float", 120>>],
             [Cmd("SUBMIT_SCORE") EXCEPT !.competitor = Some(A)],
             [Cmd("SUBMIT_SCORE") EXCEPT !.competitor = Some(B), !.score = Some(55)]}

SetTimeCriterionCmds(f) ==
    IF f = "epoch"
    THEN {[Cmd("SET_TIME_CRITERION") EXCEPT !.timeCriterionEnabled = Some(TRUE)]}
    ELSE {}

Fp1 == <<"f", "1">>

Fp2 == <<"f", "2">>

TimeTiebreakCmd(decision, fingerprint) ==
    [Cmd("SET_TIME_TIEBREAK_DECISION") EXCEPT
        !.timeTiebreakDecision = decision, !.timeTiebreakFingerprint = fingerprint]

SetTimeTiebreakCmds(f) ==
    IF f = "tiebreak"
    THEN {TimeTiebreakCmd(Some("yes"), Str(Fp1)),
          TimeTiebreakCmd(Some("no"), Str(<<" ", "f", "2">>)),
          TimeTiebreakCmd(Some("maybe"), Str(Fp1)),
          TimeTiebreakCmd(Some("yes"), Str(<<" ">>))}
    ELSE {}

PrevRoundsCmd(decision, fingerprint, order, ranks) ==
    [Cmd("SET_PREV_ROUNDS_TIEBREAK_DECISION") EXCEPT
        !.prevRoundsTiebreakDecision = decision,
        !.prevRoundsTiebreakFingerprint = fingerprint,
        !.prevRoundsTiebreakOrder = order,
        !.prevRoundsTiebreakRanksByName = ranks]

OrderBA == <<"list", <<Str(<<"B", " ">>), Str(A), Str(B), <<"int", 3>>>>>>

RanksAB == <<"dict", <<<<Str(A), <<"int", 1>>>>, <<Str(B), <<"int", 2>>>>>>>>

SetPrevRoundsCmds(f) ==
    IF f = "tiebreak"
    THEN {PrevRoundsCmd(Some("yes"), Str(Fp1), OrderBA, RanksAB),
          PrevRoundsCmd(Some("no"), Str(Fp1), OrderBA, RanksAB),
          PrevRoundsCmd(Some("yes"), Str(Fp1), Absent, Absent),
          PrevRoundsCmd(Some("yes"), Str(Fp1), Str(A), RanksAB),
          PrevRoundsCmd(Some("yes"), Str(Fp1), OrderBA,
                        <<"dict", <<<<Str(A), <<"int", 0>>>>>>>>)}
    ELSE {}

ResetPartialCmds(f) ==
    CASE f \in {"epoch", "queue", "scores", "tiebreak", "resolve", "times"} ->
            {[Cmd("RESET_PARTIAL") EXCEPT !.unmarkAll = TRUE]}
      [] f = "progress" ->
            {[Cmd("RESET_PARTIAL") EXCEPT !.clearProgress = TRUE],
             [Cmd("RESET_PARTIAL") EXCEPT !.unmarkAll = TRUE]}
      [] f = "timer" ->
            {Cmd("RESET_PARTIAL"),
             [Cmd("RESET_PARTIAL") EXCEPT !.resetTimer = TRUE],
             [Cmd("RESET_PARTIAL") EXCEPT !.clearProgress = TRUE],
             [Cmd("RESET_PARTIAL") EXCEPT !.unmarkAll = TRUE]}

ResetBoxCmds(f) == {Cmd("RESET_BOX")}

OtherCmds(f) == IF f = "epoch" THEN {Cmd("REQUEST_STATE")} ELSE {}

(***************************************************************************)
(* The state machine                                                       *)
(***************************************************************************)
\* What the properties need to know of the last event: the command's type
\* and key fields, and the outcome's flags and resolved competitor.
Event(cmd, out) ==
    [type |-> cmd.type,
     routeIndex |-> cmd.routeIndex,
     unmarkAll |-> cmd.unmarkAll,
     competitor |-> out.cmd_payload.competitor,
     sessionId |-> out.cmd_payload.sessionId,
     snapshot_required |-> out.snapshot_required,
     raised |-> out.raised]

NoEvent == Event(Cmd("NONE"), Outcome(None, Cmd("NONE"), FALSE))

\* a construction of ValidatedCmd: before it ran, and with its outcome
FormCall(c) == [phase |-> "call", fields |-> c, errors |-> {}]

FormIdle == [FormCall(Fields("NONE")) EXCEPT !.phase = "idle"]

RankIdle ==
    [phase |-> "idle", input |-> None, result |-> None, calls |-> <<>>, split |-> <<>>]

GateCall(st, cmd, require_session) ==
    [phase |-> "call", st |-> st, cmd |-> cmd, require_session |-> require_session,
     result |-> GateResult("accept", None)]

GateIdle ==
    [GateCall([sessionId |-> None, boxVersion |-> 0],
              [sessionId |-> None, boxVersion |-> None], FALSE) EXCEPT !.phase = "idle"]

\* RESET_BOX and RESET_PARTIAL with unmarkAll: the commands that restart the box
IsRestart(cmd) ==
    cmd.type = "RESET_BOX" \/ (cmd.type = "RESET_PARTIAL" /\ cmd.unmarkAll)

SetMax(S) == CHOOSE x \in S : \A y \in S : y <= x

\* uuid.uuid4(): an id that no state of the behaviour has had
FreshUuid == SetMax(retired \cup {Get(state.sessionId)}) + 1

Init ==
    /\ focus \in Foci
    /\ state = default_state(Some(1), 1)
    /\ last = NoEvent
    /\ tab = None
    /\ retired = {}
    /\ gate = GateIdle
    /\ form = FormIdle
    /\ ranking = RankIdle

\* apply_command(state, cmd): the caller's state is replaced by the outcome's
\* state; when the transition raises, the caller's state is untouched.
apply_command(cmd) ==
    \E out \in {_apply_transition(state, cmd, FreshUuid)} :
        /\ state' = out.state
        /\ last' = Event(cmd, out)
        /\ retired' = IF IsRestart(cmd)
                      THEN retired \cup {Get(state.sessionId)}
                      ELSE retired
        /\ UNCHANGED <<tab, focus, gate, form, ranking>>

InitRoute ==
    /\ state.boxVersion < (IF focus = "queue" THEN MaxQueueVersion ELSE MaxVersion)
    /\ \E cmd \in InitRouteCmds(focus) : apply_command(cmd)

StartTimer == \E cmd \in TimerCmds(focus, "START_TIMER") : apply_command(cmd)

StopTimer == \E cmd \in TimerCmds(focus, "STOP_TIMER") : apply_command(cmd)

ResumeTimer == \E cmd \in TimerCmds(focus, "RESUME_TIMER") : apply_command(cmd)

ProgressUpdate ==
    /\ state.holdCount < 10 * MaxHold
    /\ \E cmd \in ProgressCmds(focus) : apply_command(cmd)

RegisterTime == \E cmd \in RegisterTimeCmds(focus) : apply_command(cmd)

TimerSync == \E cmd \in TimerSyncCmds(focus) : apply_command(cmd)

SetTimerPreset == \E cmd \in SetTimerPresetCmds(focus) : apply_command(cmd)

SubmitScore == \E cmd \in SubmitScoreCmds(focus) : apply_command(cmd)

SetTimeCriterion == \E cmd \in SetTimeCriterionCmds(focus) : apply_command(cmd)

SetTimeTiebreakDecision == \E cmd \in SetTimeTiebreakCmds(focus) : apply_command(cmd)

SetPrevRoundsTiebreakDecision == \E cmd \in SetPrevRoundsCmds(focus) : apply_command(cmd)

ResetPartial ==
    \E cmd \in ResetPartialCmds(focus) :
        /\ cmd.unmarkAll => Get(state.sessionId) < MaxSessions
        /\ apply_command(cmd)

ResetBox ==
    /\ Get(state.sessionId) < MaxSessions
    /\ \E cmd \in ResetBoxCmds(focus) : apply_command(cmd)

OtherCommand == \E cmd \in OtherCmds(focus) : apply_command(cmd)

\* a judge tab reads the epoch pair of the current state
TabRead ==
    /\ focus = "epoch"
    /\ tab' = Some([sessionId |-> state.sessionId, boxVersion |-> state.boxVersion])
    /\ last' = Event(Cmd("TAB_READ"), Outcome(None, Cmd("TAB_READ"), FALSE))
    /\ UNCHANGED <<state, retired, focus, gate, form, ranking>>

Next ==
    \/ InitRoute
    \/ StartTimer
    \/ StopTimer
    \/ ResumeTimer
    \/ ProgressUpdate
    \/ RegisterTime
    \/ TimerSync
    \/ SetTimerPreset
    \/ SubmitScore
    \/ SetTimeCriterion
    \/ SetTimeTiebreakDecision
    \/ SetPrevRoundsTiebreakDecision
    \/ ResetPartial
    \/ ResetBox
    \/ OtherCommand
    \/ TabRead

Spec == Init /\ [][Next]_vars

(***************************************************************************)
(* The session gate as a pure function: one call on drawn arguments.       *)
(***************************************************************************)
SessionIds == {None} \cup {Some(i) : i \in EmptySessionId..MaxSessions}

Versions == {None} \cup {Some(v) : v \in 0..(MaxVersion + 1)}

InitGate ==
    /\ focus = "gate"
    /\ state = default_state(Some(1), 1)
    /\ last = NoEvent
    /\ tab = None
    /\ retired = {}
    /\ form = FormIdle
    /\ ranking = RankIdle
    /\ gate \in {GateCall([sessionId |-> s, boxVersion |-> v],
                          [sessionId |-> cs, boxVersion |-> cv], r) :
                    s \in SessionIds, v \in 0..MaxVersion,
                    cs \in SessionIds, cv \in Versions, r \in BOOLEAN}

Validate ==
    /\ gate.phase = "call"
    /\ gate' = [gate EXCEPT
                    !.phase = "done",
                    !.result = validate_session_and_version(gate.st, gate.cmd,
                                                            gate.require_session)]
    /\ UNCHANGED <<state, last, tab, retired, focus, form, ranking>>

NextGate == Validate

SpecGate == InitGate /\ [][NextGate]_vars

(***************************************************************************)
(* The command validator as a function: one construction on drawn fields.  *)
(***************************************************************************)
\* the command types _apply_transition has a branch for
TransitionTypes ==
    {"INIT_ROUTE", "START_TIMER", "STOP_TIMER", "RESUME_TIMER", "PROGRESS_UPDATE",
     "REGISTER_TIME", "TIMER_SYNC", "SET_TIMER_PRESET", "SUBMIT_SCORE",
     "SET_TIME_CRITERION", "SET_TIME_TIEBREAK_DECISION",
     "SET_PREV_ROUNDS_TIEBREAK_DECISION", "RESET_PARTIAL", "RESET_BOX"}

\* the types drawn: those the validator or the state machine knows, the
\* empty text, an unknown word and a known word in lower case
TypeUniverse ==
    allowed_types \cup TransitionTypes \cup {"", "BOGUS", "start_timer"}

\* a construction that passes every field its type may require
FullFields(type) ==
    [Fields(type) EXCEPT
        !.routeIndex = Some(1), !.holdsCount = Some(3), !.delta = Some(10),
        !.competitor = Some(A), !.registeredTime = Some(155),
        !.remaining = Some(420), !.timeCriterionEnabled = Some(TRUE)]

FormInputs ==
    {FullFields(t) : t \in TypeUniverse}
    \cup {[Fields("SUBMIT_SCORE") EXCEPT !.competitor = c, !.competitorIdx = ci,
                                         !.idx = i, !.score = Some(50)] :
            c \in {None, Some(A), Some(<<>>), Some(<<"<", "b", ">">>)},
            ci \in {None, Some(0), Some(1001)},
            i \in {None, Some(0)}}
    \cup {[Fields("INIT_ROUTE") EXCEPT !.routeIndex = ri, !.holdsCount = h] :
            ri \in {None, Some(0), Some(1)}, h \in {None, Some(0), Some(101)}}
    \cup {[Fields("PROGRESS_UPDATE") EXCEPT !.delta = d] :
            d \in {None, Some(0), Some(-101), Some(100)}}
    \cup {[Fields("REGISTER_TIME") EXCEPT !.registeredTime = t, !.time = u] :
            t \in {None, Some(155), Some(-10)}, u \in {None, Some(155)}}
    \cup {[Fields("TIMER_SYNC") EXCEPT !.remaining = r] :
            r \in {None, Some(0), Some(100000)}}
    \cup {[Fields("SET_TIME_CRITERION") EXCEPT !.timeCriterionEnabled = e] :
            e \in {None, Some(FALSE)}}

InitValidator ==
    /\ focus = "validator"
    /\ state = default_state(Some(1), 1)
    /\ last = NoEvent
    /\ tab = None
    /\ retired = {}
    /\ gate = GateIdle
    /\ ranking = RankIdle
    /\ form \in {FormCall(c) : c \in FormInputs}

Construct ==
    /\ form.phase = "call"
    /\ form' = [form EXCEPT !.phase = "done", !.errors = ValidatedCmd(form.fields)]
    /\ UNCHANGED <<state, last, tab, retired, focus, gate, ranking>>

NextValidator == Construct

SpecValidator == InitValidator /\ [][NextValidator]_vars

(***************************************************************************)
(* lead_ranking.py.  Athlete ids and names are character sequences; a      *)
(* result's time_seconds is Null, <<"float", t>> (t in tenths) or          *)
(* <<"nan">> for a non-finite float.  sorted() is a stable insertion sort  *)
(* on keys that are integer sequences compared as Python compares tuples.  *)
(* A fingerprint is its canonical payload (the text that is hashed).       *)
(***************************************************************************)
\* str.lower() of a name
NameLower(s) ==
    [i \in 1..Len(s) |->
        IF \E k \in 1..26 : UpperLetters[k] = s[i]
        THEN LowerLetters[CHOOSE k \in 1..26 : UpperLetters[k] = s[i]]
        ELSE s[i]]

\* the position of a character in code point order: upper case first
CharRank(ch) ==
    IF \E k \in 1..26 : UpperLetters[k] = ch
    THEN CHOOSE k \in 1..26 : UpperLetters[k] = ch
    ELSE IF \E k \in 1..26 : LowerLetters[k] = ch
         THEN 26 + (CHOOSE k \in 1..26 : LowerLetters[k] = ch)
         ELSE 0

\* a str as a sort key component: its characters' ranks, then an end mark
\* that sorts before every character
StrKey(s) == [i \in 1..(Len(s) + 1) |-> IF i <= Len(s) THEN CharRank(s[i]) ELSE -1]

\* Op applied to a value that is computed once
With(value, Op(_)) == CHOOSE result \in {Op(x) : x \in {value}} : TRUE

\* a < b for tuples of integers
LexLess(a, b) ==
    \E k \in 1..(IF Len(a) < Len(b) THEN Len(a) + 1 ELSE Len(b)) :
        /\ \A m \in 1..(k - 1) : a[m] = b[m]
        /\ IF k <= Len(a) THEN a[k] < b[k] ELSE TRUE

\* sorted(values, key=...) given the <<key, value>> pairs in input order: a
\* value comes behind those of a smaller key and those of the same key that
\* were before it in the input
SortedByKey(pairs) ==
    With(pairs, LAMBDA ps :
        [p \in 1..Len(ps) |->
            ps[CHOOSE i \in 1..Len(ps) :
                  Cardinality({j \in 1..Len(ps) :
                                  \/ LexLess(ps[j][1], ps[i][1])
                                  \/ ps[j][1] = ps[i][1] /\ j < i}) = p - 1][2]])

\* the integers of a set from the greatest down
SortedIntsDescending(S) ==
    With(S, LAMBDA ints :
        [p \in 1..Cardinality(ints) |->
            CHOOSE x \in ints : Cardinality({y \in ints : y > x}) = p - 1])

\* sorted(S) of a set of integers
SortedInts(S) ==
    With(S, LAMBDA ints :
        [p \in 1..Cardinality(ints) |->
            CHOOSE x \in ints : Cardinality({y \in ints : y < x}) = p - 1])

\* the items of the chunks from the k-th on, in order
RECURSIVE FlattenFrom(_, _)
FlattenFrom(chunks, k) ==
    IF k > Len(chunks) THEN <<>> ELSE chunks[k] \o FlattenFrom(chunks, k + 1)

Flatten(chunks) == With(chunks, LAMBDA cs : FlattenFrom(cs, 1))

\* sum(len(ch.items) for ch in chunks)
CountItems(chunks) == Len(Flatten(chunks))

\* seq cut into its runs: a run ends where the next item is not Same as the
\* one before it (for a transitive Same: as the first of the run)
Runs(seq, Same(_, _)) ==
    With(seq, LAMBDA items :
        With({s \in 1..Len(items) : s = 1 \/ ~Same(items[s - 1], items[s])},
             LAMBDA starts :
                 [k \in 1..Cardinality(starts) |->
                     LET first == CHOOSE s \in starts :
                                      Cardinality({t \in starts : t < s}) = k - 1
                         later == {t \in starts : t > first}
                     IN SubSeq(items, first,
                               IF later = {} THEN Len(items)
                               ELSE (CHOOSE t \in later : \A u \in later : t <= u) - 1)]))

\* ref tells the item objects apart: the position of the athlete in the
\* list that was passed
_ResolvedItem(athlete, result, ref) ==
    [athlete |-> athlete, result |-> result, tb_prev |-> FALSE, tb_time |-> FALSE,
     ref |-> ref]

\* a key that leaves the hold out
ResultKeyWithoutHold(result) ==
    <<IF result.topped THEN 1 ELSE 0, 0, IF result.plus /\ ~result.topped THEN 1 ELSE 0>>

_result_sort_key(result) ==
    <<IF result.topped THEN 1 ELSE 0,
      result.hold,
      IF result.plus /\ ~result.topped THEN 1 ELSE 0>>

\* in tenths
_score_hint(result) ==
    IF result.topped THEN 10 * result.hold
    ELSE 10 * result.hold + (IF result.plus THEN 1 ELSE 0)

_stable_athlete_sort_key(item) ==
    StrKey(NameLower(item.athlete.name)) \o StrKey(item.athlete.id)

\* sorted(items, key=_stable_athlete_sort_key)
SortedItems(items) ==
    SortedByKey([i \in 1..Len(items) |-> <<_stable_athlete_sort_key(items[i]), items[i]>>])

\* sorted(item.athlete.id for item in items)
SortedIds(items) ==
    SortedByKey([i \in 1..Len(items) |-> <<StrKey(items[i].athlete.id), items[i].athlete.id>>])

_build_tie_fingerprint(round_name, stage, rank_start, rank_end, affects_podium, members) ==
    [round |-> round_name,
     stage |-> stage,
     rank_start |-> rank_start,
     rank_end |-> rank_end,
     affects_podium |-> affects_podium,
     members |->
        SortedByKey([i \in 1..Len(members) |->
            <<StrKey(NameLower(members[i].athlete.name)) \o StrKey(members[i].athlete.id),
              [id |-> members[i].athlete.id,
               name |-> members[i].athlete.name,
               topped |-> members[i].result.topped,
               hold |-> members[i].result.hold,
               plus |-> members[i].result.plus,
               time |-> members[i].result.time_seconds]>>])]

_build_lineage_key(round_name, result) ==
    [round |-> round_name,
     context |-> "overall",
     performance |-> [topped |-> result.topped,
                      hold |-> result.hold,
                      plus |-> result.plus /\ ~result.topped]]

TieBreakDecision(choice, previous_ranks_by_athlete) ==
    [choice |-> choice, previous_ranks_by_athlete |-> previous_ranks_by_athlete]

_default_pending_decision == TieBreakDecision("pending", None)

TieContext(round_name, stage, rank_start, rank_end, affects_podium, fp, lineage_key, members) ==
    [round_name |-> round_name,
     stage |-> stage,
     rank_start |-> rank_start,
     rank_end |-> rank_end,
     affects_podium |-> affects_podium,
     fingerprint |-> fp,
     athletes |-> [i \in 1..Len(members) |-> members[i].athlete],
     performance |-> members[1].result,
     lineage_key |-> lineage_key]

(***************************************************************************)
(* A resolver is None or a record of what its resolve() does, by the stage *)
(* of the context and by whether the tie starts at rank 1:                 *)
(* [prev |-> <<at rank 1, later>>, time |-> <<at rank 1, later>>].  What   *)
(* it does is <<"raise">>, <<"none">> (it returns None), <<"decision", d>> *)
(* (it returns d) or <<"ranks", dict>> (it returns yes with the items of   *)
(* dict that are about the athletes of the group it is asked about).       *)
(***************************************************************************)
Behaviour(resolver, context) ==
    (IF context.stage = "previous_rounds" THEN resolver.prev ELSE resolver.time)
        [IF context.rank_start = 1 THEN 1 ELSE 2]

\* resolver.resolve([item.athlete for item in group], context): what it
\* raises or returns
resolve(resolver, athletes, context) ==
    LET does == Behaviour(resolver, context)
    IN IF does[1] = "ranks"
       THEN <<"decision",
              TieBreakDecision("yes",
                  Some(SelectSeq(does[2],
                                 LAMBDA kv : \E i \in 1..Len(athletes) :
                                                 athletes[i].id = kv[1])))>>
       ELSE does

\* a fallback that takes any choice the resolver returns
ResolveTrustingChoice(resolver, group, context) ==
    LET outcome == resolve(resolver, [i \in 1..Len(group) |-> group[i].athlete], context)
    IN IF resolver = None THEN _default_pending_decision
       ELSE IF outcome[1] \in {"raise", "none"} THEN _default_pending_decision
       ELSE outcome[2]

_resolve_with_fallback(resolver, group, context) ==
    LET outcome == resolve(resolver, [i \in 1..Len(group) |-> group[i].athlete], context)
    IN IF resolver = None THEN _default_pending_decision
       ELSE IF outcome[1] \in {"raise", "none"} THEN _default_pending_decision
       ELSE IF outcome[2].choice \notin {"yes", "no", "pending"}
            THEN _default_pending_decision
       ELSE outcome[2]

(***************************************************************************)
(* previous_ranks_by_athlete is None (also standing for a value that is no *)
(* dict) or Some(dict); a dict is the sequence of its <<id, rank>> items   *)
(* in insertion order, with integer ranks (a rank that is no int fails     *)
(* where a rank <= 0 fails).                                               *)
(***************************************************************************)
DictKeys(dict) == {dict[i][1] : i \in 1..Len(dict)}

DictGet(dict, key) == dict[CHOOSE i \in 1..Len(dict) : dict[i][1] = key][2]

\* a dict compared as == compares dicts
AsDict(dict) == [key \in DictKeys(dict) |-> DictGet(dict, key)]

\* returns <<ok, reason>>
_validate_previous_ranks(members, ranks_by_athlete) ==
    IF ranks_by_athlete = None \/ Get(ranks_by_athlete) = <<>>
    THEN <<FALSE, <<"missing_previous_rounds_ranks">>>>
    ELSE LET dict == Get(ranks_by_athlete)
             expected_ids == {members[i].athlete.id : i \in 1..Len(members)}
             bad == {i \in 1..Len(dict) : dict[i][1] \notin expected_ids \/ dict[i][2] <= 0}
             first == CHOOSE i \in bad : \A k \in bad : i <= k
         IN IF bad = {} THEN <<TRUE, None>>
            ELSE IF dict[first][1] \notin expected_ids
                 THEN <<FALSE, <<"invalid_previous_rounds_rank_member", dict[first][1]>>>>
                 ELSE <<FALSE, <<"invalid_previous_rounds_rank", dict[first][1]>>>>

_to_ranking_row(item, rank) ==
    [athlete_id |-> item.athlete.id,
     athlete_name |-> item.athlete.name,
     rank |-> rank,
     topped |-> item.result.topped,
     hold |-> item.result.hold,
     plus |-> item.result.plus,
     time_seconds |-> item.result.time_seconds,
     tb_prev |-> item.tb_prev,
     tb_time |-> item.tb_time,
     score_hint |-> _score_hint(item.result)]

\* tuple(_to_ranking_row(item, rank) for item in members)
MemberRows(members, rank) == [i \in 1..Len(members) |-> _to_ranking_row(members[i], rank)]

\* an event that never says it affects the podium
TieEventBesidePodium(fp, stage, rank_start, rank_end, affects_podium, members, status, detail) ==
    [fingerprint |-> fp,
     stage |-> stage,
     rank_start |-> rank_start,
     rank_end |-> rank_end,
     affects_podium |-> FALSE,
     members |-> MemberRows(members, rank_start),
     status |-> status,
     detail |-> detail,
     lineage_key |-> None,
     known_prev_ranks_by_athlete |-> None,
     missing_prev_rounds_athlete_ids |-> None,
     requires_prev_rounds_input |-> FALSE]

TieEvent(fp, stage, rank_start, rank_end, affects_podium, members, status, detail) ==
    [fingerprint |-> fp,
     stage |-> stage,
     rank_start |-> rank_start,
     rank_end |-> rank_end,
     affects_podium |-> affects_podium,
     members |-> MemberRows(members, rank_start),
     status |-> status,
     detail |-> detail,
     lineage_key |-> None,
     known_prev_ranks_by_athlete |-> None,
     missing_prev_rounds_athlete_ids |-> None,
     requires_prev_rounds_input |-> FALSE]

_items_equal_time(a, b) == a.result.time_seconds = b.result.time_seconds

\* one partition per member, in the order given, whatever the ranks
PartitionAsGiven(members, ranks_by_athlete) == [k \in 1..Len(members) |-> <<members[k]>>]

_partition_by_prev_ranks(members, ranks_by_athlete) ==
    LET rank_vals == SortedInts({DictGet(ranks_by_athlete, members[i].athlete.id) :
                                    i \in 1..Len(members)})
    IN [k \in 1..Len(rank_vals) |->
           SortedItems(SelectSeq(members,
                                 LAMBDA item : DictGet(ranks_by_athlete, item.athlete.id)
                                                  = rank_vals[k]))]

\* float(time_seconds or math.inf) as a key: a time that is None or 0 counts
\* as infinity
TimeKey(time_seconds) ==
    IF IsNull(time_seconds) \/ time_seconds = <<"float", 0>> THEN <<1, 0>>
    ELSE <<0, Val(time_seconds)>>

\* the runs of items of one time: the items equal in time to the run's first
TimeRuns(ordered) == Runs(ordered, _items_equal_time)

_partition_by_time(members) ==
    TimeRuns(SortedByKey([i \in 1..Len(members) |->
                 <<TimeKey(members[i].result.time_seconds)
                      \o _stable_athlete_sort_key(members[i]),
                   members[i]>>]))

\* what a stage gives with its errors left out
StageWithoutErrors(chunks, resolved, tie_events, errors, calls) ==
    [chunks |-> chunks, resolved |-> resolved, tie_events |-> tie_events,
     errors |-> <<>>, calls |-> calls]

(***************************************************************************)
(* The stages.  A stage returns what the code returns and what it appends  *)
(* to the lists it is handed: [chunks, resolved, tie_events, errors], and  *)
(* calls, the contexts resolve() was called with.  A chunk is the sequence *)
(* of its items.  A text built from parts (an error, a detail) is the      *)
(* tuple of its parts.                                                     *)
(***************************************************************************)
StageResult(chunks, resolved, tie_events, errors, calls) ==
    [chunks |-> chunks, resolved |-> resolved, tie_events |-> tie_events,
     errors |-> errors, calls |-> calls]

\* the contexts of the calls _resolve_with_fallback makes
ResolverCalls(resolver, context) == IF resolver = None THEN <<>> ELSE <<context>>

_resolve_time_stage(members, rank_start, podium_places, round_name, resolver) ==
    LET affects_podium == rank_start <= podium_places
        rank_end == rank_start + Len(members) - 1
        missing_times ==
            SelectSeq(members,
                      LAMBDA item : \/ IsNull(item.result.time_seconds)
                                    \/ Tag(item.result.time_seconds) = "nan")
        marked == [i \in 1..Len(members) |-> [members[i] EXCEPT !.tb_time = TRUE]]
    IN With(_build_tie_fingerprint(round_name, "time", rank_start, rank_end,
                                   affects_podium, members),
       LAMBDA fp :
       With(TieContext(round_name, "time", rank_start, rank_end, affects_podium, fp,
                       None, members),
       LAMBDA ctx :
       With(_resolve_with_fallback(resolver, members, ctx),
       LAMBDA decision :
       With(ResolverCalls(resolver, ctx),
       LAMBDA calls :
       CASE decision.choice = "pending" ->
                StageResult(<<members>>, ~affects_podium,
                            <<TieEvent(fp, "time", rank_start, rank_end, affects_podium,
                                       members, "pending", <<"time_tiebreak_pending">>)>>,
                            <<>>, calls)
         [] decision.choice = "no" ->
                IF affects_podium
                THEN StageResult(<<members>>, FALSE,
                                 <<TieEvent(fp, "time", rank_start, rank_end, TRUE, members,
                                            "error", <<"podium_keep_tied_not_allowed">>)>>,
                                 <<<<"podium_time_tiebreak_keep_tied_not_allowed", fp>>>>,
                                 calls)
                ELSE StageResult(<<members>>, TRUE, <<>>, <<>>, calls)
         [] OTHER ->
                IF missing_times # <<>>
                THEN StageResult(<<members>>, ~affects_podium,
                                 <<TieEvent(fp, "time", rank_start, rank_end, affects_podium,
                                            members, "error", <<"missing_time_seconds">>)>>,
                                 <<<<"time_tiebreak_missing_times", fp>>>>,
                                 calls)
                ELSE With(_partition_by_time(marked),
                     LAMBDA partitions :
                     With(\E k \in 1..Len(partitions) : Len(partitions[k]) > 1,
                     LAMBDA has_unresolved :
                        StageResult(partitions, ~(has_unresolved /\ affects_podium),
                                    IF has_unresolved /\ affects_podium
                                    THEN <<TieEvent(fp, "time", rank_start, rank_end, TRUE,
                                                    marked, "error",
                                                    <<"identical_time_keeps_podium_tie">>)>>
                                    ELSE <<>>,
                                    <<>>, calls)))))))

\* the items of members as the stages left them in the chunks
AsLeftIn(chunks, members) ==
    With(Flatten(chunks), LAMBDA items :
        [i \in 1..Len(members) |->
            IF \E k \in 1..Len(items) : items[k].ref = members[i].ref
            THEN items[CHOOSE k \in 1..Len(items) : items[k].ref = members[i].ref]
            ELSE members[i]])

\* what a stage adds to what the stages before it gave
Merged(acc, stage) ==
    StageResult(acc.chunks \o stage.chunks,
                acc.resolved /\ stage.resolved,
                acc.tie_events \o stage.tie_events,
                acc.errors \o stage.errors,
                acc.calls \o stage.calls)

\* the loop of _resolve_group over the partitions from part_idx on; acc is
\* what the partitions before gave
RECURSIVE ResolvePartitions(_, _, _, _)
ResolvePartitions(partitions, part_idx, env, acc) ==
    IF part_idx >= Len(partitions) THEN acc
    ELSE LET part == partitions[part_idx + 1]
             part_rank_start == env.rank_start + CountItems(acc.chunks)
         IN With(IF Len(part) = 1
                 THEN [acc EXCEPT !.chunks =
                          Append(@, <<IF part_idx = 0
                                      THEN [part[1] EXCEPT !.tb_prev = TRUE]
                                      ELSE part[1]>>)]
                 ELSE Merged(acc,
                             _resolve_time_stage(part, part_rank_start, env.podium_places,
                                                 env.round_name, env.resolver)),
                 LAMBDA next : ResolvePartitions(partitions, part_idx + 1, env, next))

\* _resolve_group once the decision is yes with valid ranks
ResolveByPrevRanks(members, env, ranks_by_athlete, event(_, _, _, _, _), calls) ==
    LET known_members ==
            SelectSeq(members, LAMBDA item : item.athlete.id \in DictKeys(ranks_by_athlete))
        missing_members ==
            SelectSeq(members, LAMBDA item : item.athlete.id \notin DictKeys(ranks_by_athlete))
    IN IF known_members = <<>>
       THEN StageResult(<<members>>, FALSE,
                        <<event(members, "pending", <<"previous_rounds_missing_members">>,
                                <<>>, missing_members)>>,
                        <<>>, calls)
       ELSE With(_partition_by_prev_ranks(known_members, ranks_by_athlete),
            LAMBDA partitions :
            With(ResolvePartitions(partitions, 0, env,
                                   StageResult(<<>>, TRUE, <<>>, <<>>, <<>>)),
            LAMBDA parts :
            With(SortedItems(missing_members),
            LAMBDA missing_members_sorted :
               IF missing_members # <<>>
               THEN StageResult(
                        Append(parts.chunks, missing_members_sorted), FALSE,
                        Append(parts.tie_events,
                               event(AsLeftIn(parts.chunks, members), "pending",
                                     <<"previous_rounds_missing_members">>,
                                     AsDict(SelectSeq(ranks_by_athlete,
                                                LAMBDA kv : \E i \in 1..Len(known_members) :
                                                    known_members[i].athlete.id = kv[1])),
                                     missing_members_sorted)),
                        parts.errors, calls \o parts.calls)
               ELSE [parts EXCEPT !.calls = calls \o @])))

_resolve_group(members, rank_start, podium_places, round_name, resolver) ==
    LET affects_podium == rank_start <= podium_places
        rank_end == rank_start + Len(members) - 1
        lineage_key == _build_lineage_key(round_name, members[1].result)
        env == [rank_start |-> rank_start, podium_places |-> podium_places,
                round_name |-> round_name, resolver |-> resolver]
    IN IF ~affects_podium THEN StageResult(<<members>>, TRUE, <<>>, <<>>, <<>>)
       ELSE
       With(_build_tie_fingerprint(round_name, "previous_rounds", rank_start, rank_end,
                                   affects_podium, members),
       LAMBDA fp :
       With(TieContext(round_name, "previous_rounds", rank_start, rank_end,
                       affects_podium, fp, Some(lineage_key), members),
       LAMBDA ctx :
       With(_resolve_with_fallback(resolver, members, ctx),
       LAMBDA decision :
       With(ResolverCalls(resolver, ctx),
       LAMBDA calls :
       LET event(rows_of, status, detail, known, missing) ==
               [TieEvent(fp, "previous_rounds", rank_start, rank_end, affects_podium,
                         rows_of, status, detail)
                   EXCEPT !.lineage_key = Some(lineage_key),
                          !.known_prev_ranks_by_athlete = Some(known),
                          !.missing_prev_rounds_athlete_ids = Some(SortedIds(missing)),
                          !.requires_prev_rounds_input = TRUE]
           valid == _validate_previous_ranks(members, decision.previous_ranks_by_athlete)
       IN CASE decision.choice = "pending" ->
                   StageResult(<<members>>, ~affects_podium,
                               <<event(members, "pending", <<"previous_rounds_pending">>,
                                       <<>>, members)>>,
                               <<>>, calls)
            [] decision.choice = "no" ->
                   With(_resolve_time_stage(members, rank_start, podium_places,
                                            round_name, resolver),
                        LAMBDA time_stage : [time_stage EXCEPT !.calls = calls \o @])
            [] OTHER ->
                   IF ~valid[1]
                   THEN StageResult(<<members>>, ~affects_podium,
                                    <<event(members, "error", valid[2], <<>>, members)>>,
                                    <<<<"invalid_previous_rounds_decision", fp, valid[2]>>>>,
                                    calls)
                   ELSE ResolveByPrevRanks(members, env,
                                           Get(decision.previous_ranks_by_athlete),
                                           event, calls)))))

\* the loop of compute_lead_ranking over the groups of identical performance
RECURSIVE ResolveGroups(_, _, _, _)
ResolveGroups(resolved_items, i, env, acc) ==
    IF i > Len(resolved_items) THEN acc
    ELSE LET current_key == _result_sort_key(resolved_items[i].result) IN
         With(CHOOSE j \in (i + 1)..(Len(resolved_items) + 1) :
                  /\ \A k \in i..(j - 1) :
                         _result_sort_key(resolved_items[k].result) = current_key
                  /\ \/ j = Len(resolved_items) + 1
                     \/ _result_sort_key(resolved_items[j].result) # current_key,
         LAMBDA j :
         With(SubSeq(resolved_items, i, j - 1),
         LAMBDA group :
         With(CountItems(acc.chunks) + 1,
         LAMBDA rank_start :
         With(IF Len(group) <= 1
              THEN [acc EXCEPT !.chunks = Append(@, group)]
              ELSE [Merged(acc, _resolve_group(group, rank_start, env.podium_places,
                                               env.round_name, env.resolver))
                       EXCEPT !.resolved = TRUE],
         LAMBDA next : ResolveGroups(resolved_items, j, env, next)))))

\* a podium three places too long
PodiumTooLong(podium_places) == podium_places + 3

\* max(1, int(podium_places or 3))
PodiumPlaces(podium_places) ==
    IF podium_places = 0 THEN 3 ELSE IF podium_places < 1 THEN 1 ELSE podium_places

\* a base ordering by the performance alone
BaseSortKeyOfPerformance(item) ==
    <<-_result_sort_key(item.result)[1],
      -_result_sort_key(item.result)[2],
      -_result_sort_key(item.result)[3]>>

\* the key of resolved_items.sort
BaseSortKey(item) ==
    <<-_result_sort_key(item.result)[1],
      -_result_sort_key(item.result)[2],
      -_result_sort_key(item.result)[3]>>
        \o StrKey(NameLower(item.athlete.name)) \o StrKey(item.athlete.id)

\* final_chunks, tie_events and errors when the loop over the groups is done
FinalChunks(athletes, results, tie_break_resolver, podium_places, round_name) ==
    With(SelectSeq([i \in 1..Len(athletes) |-> [athlete |-> athletes[i], ref |-> i]],
                   LAMBDA e : e.athlete.id \in DOMAIN results),
    LAMBDA with_result :
    With(SortedByKey([i \in 1..Len(with_result) |->
             LET item == _ResolvedItem(with_result[i].athlete,
                                       results[with_result[i].athlete.id],
                                       with_result[i].ref)
             IN <<BaseSortKey(item), item>>]),
    LAMBDA resolved_items :
        ResolveGroups(resolved_items, 1,
                      [podium_places |-> PodiumPlaces(podium_places),
                       round_name |-> round_name, resolver |-> tie_break_resolver],
                      StageResult(<<>>, TRUE, <<>>, <<>>, <<>>))))

\* the contexts resolve() is called with during compute_lead_ranking, in order
ResolveCalls(athletes, results, tie_break_resolver, podium_places, round_name) ==
    FinalChunks(athletes, results, tie_break_resolver, podium_places, round_name).calls

\* rows.sort(key=(rank, athlete_name.lower(), athlete_id))
SortedRows(rows) ==
    SortedByKey([i \in 1..Len(rows) |->
        <<<<rows[i].rank>> \o StrKey(NameLower(rows[i].athlete_name))
              \o StrKey(rows[i].athlete_id),
          rows[i]>>])

\* the rows of the chunks with the next rank for each chunk
RECURSIVE ChunkRowsDense(_, _, _)
ChunkRowsDense(final_chunks, k, pos) ==
    IF k > Len(final_chunks) THEN <<>>
    ELSE MemberRows(SortedItems(final_chunks[k]), pos)
            \o ChunkRowsDense(final_chunks, k + 1, pos + 1)

\* the rows of the chunks from the k-th on; pos is the rank of the k-th chunk
RECURSIVE ChunkRows(_, _, _)
ChunkRows(final_chunks, k, pos) ==
    IF k > Len(final_chunks) THEN <<>>
    ELSE MemberRows(SortedItems(final_chunks[k]), pos)
            \o ChunkRows(final_chunks, k + 1, pos + Len(final_chunks[k]))

\* the rows before the podium safety pass
RowsOf(final_chunks) == With(final_chunks, LAMBDA chunks : SortedRows(ChunkRows(chunks, 1, 1)))

\* the rows of compute_lead_ranking before its podium safety pass
SplitRows(athletes, results, tie_break_resolver, podium_places, round_name) ==
    RowsOf(FinalChunks(athletes, results, tie_break_resolver, podium_places,
                       round_name).chunks)

\* the performance key of a row, as the podium safety pass computes it
RowKey(row) ==
    <<IF row.topped THEN 1 ELSE 0, row.hold, IF row.plus /\ ~row.topped THEN 1 ELSE 0>>

\* the runs of rows of one performance key
PerfRuns(by_perf) == Runs(by_perf, LAMBDA a, b : RowKey(a) = RowKey(b))

\* a safety pass that collapses nothing
CollapseNothing(groups, k, podium_places, collapsed) == collapsed

\* the dict collapsed after the groups from the k-th on
RECURSIVE Collapse(_, _, _, _)
Collapse(groups, k, podium_places, collapsed) ==
    IF k > Len(groups) THEN collapsed
    ELSE LET group == groups[k]
             ranks == {group[i].rank : i \in 1..Len(group)}
             min_rank == CHOOSE r \in ranks : \A q \in ranks : r <= q
             max_rank == CHOOSE r \in ranks : \A q \in ranks : r >= q
             tail == SelectSeq(group, LAMBDA r : r.rank > podium_places)
             tail_ranks == {tail[i].rank : i \in 1..Len(tail)}
             shared_tail_rank == CHOOSE r \in tail_ranks : \A q \in tail_ranks : r <= q
             put(rows, value) ==
                 [id \in DOMAIN collapsed \cup {rows[i].athlete_id : i \in 1..Len(rows)} |->
                     IF \E i \in 1..Len(rows) : rows[i].athlete_id = id
                     THEN value ELSE collapsed[id]]
         IN With(IF Len(group) <= 1 THEN collapsed
                 ELSE IF min_rank > podium_places THEN put(group, min_rank)
                 ELSE IF max_rank > podium_places /\ tail # <<>>
                      THEN put(tail, shared_tail_rank)
                 ELSE collapsed,
                 LAMBDA next : Collapse(groups, k + 1, podium_places, next))

compute_lead_ranking(athletes, results, tie_break_resolver, podium_places, round_name) ==
    LET places == PodiumPlaces(podium_places) IN
    With(FinalChunks(athletes, results, tie_break_resolver, podium_places, round_name),
    LAMBDA final :
    With(RowsOf(final.chunks),
    LAMBDA rows :
    With(SortedByKey([i \in 1..Len(rows) |->
             <<<<-RowKey(rows[i])[1], -RowKey(rows[i])[2], -RowKey(rows[i])[3]>>
                   \o StrKey(NameLower(rows[i].athlete_name))
                   \o StrKey(rows[i].athlete_id),
               rows[i]>>]),
    LAMBDA by_perf :
    With(PerfRuns(by_perf),
    LAMBDA groups :
    With(Collapse(groups, 1, places, <<>>),
    LAMBDA collapsed :
    LET has_pending_podium ==
            \/ \E k \in 1..Len(final.chunks) :
                   /\ Len(final.chunks[k]) > 1
                   /\ CountItems(SubSeq(final.chunks, 1, k - 1)) + 1 <= places
            \/ \E k \in 1..Len(final.tie_events) :
                   /\ final.tie_events[k].affects_podium
                   /\ final.tie_events[k].status \in {"pending", "error"}
    IN [rows |-> IF DOMAIN collapsed = {} THEN rows
                 ELSE SortedRows([i \in 1..Len(rows) |->
                          IF rows[i].athlete_id \in DOMAIN collapsed
                          THEN [rows[i] EXCEPT !.rank = collapsed[rows[i].athlete_id]]
                          ELSE rows[i]]),
        tie_events |-> final.tie_events,
        is_resolved |-> ~has_pending_podium,
        has_pending_podium_ties |-> has_pending_podium,
        errors |-> final.errors])))))

(***************************************************************************)
(* One call of compute_lead_ranking on drawn arguments.                    *)
(***************************************************************************)
MaxAthletes == 3

\* more athletes than a roster takes; the order by (name.lower(), id) is
\* d, b, c, a, e and differs from the order by name and from the order by id
AthletePool ==
    <<[id |-> <<"a">>, name |-> <<"D", "i">>],
      [id |-> <<"b">>, name |-> <<"b", "o">>],
      [id |-> <<"c">>, name |-> <<"B", "o">>],
      [id |-> <<"d">>, name |-> <<"A", "l">>],
      [id |-> <<"e">>, name |-> <<"E", "d">>]>>

Roster == SubSeq(AthletePool, 1, MaxAthletes)

LeadResult(topped, hold, plus, time_seconds) ==
    [topped |-> topped, hold |-> hold, plus |-> plus, time_seconds |-> time_seconds]

Raises == <<"raise">>

ReturnsNone == <<"none">>

Decides(choice, previous_ranks_by_athlete) ==
    <<"decision", TieBreakDecision(choice, previous_ranks_by_athlete)>>

RanksFrom(dict) == <<"ranks", dict>>

\* a resolver that does the same at every rank
Resolver(prev, time) == [prev |-> <<prev, prev>>, time |-> <<time, time>>]

RankingInput(athletes, results, tie_break_resolver, podium_places) ==
    [athletes |-> athletes, results |-> results,
     tie_break_resolver |-> tie_break_resolver, podium_places |-> podium_places,
     round_name |-> "Final"]

\* the times the athletes of the pool have where the performances vary
PoolTime(id) ==
    CASE id = <<"a">> -> <<"float", 70>>
      [] id = <<"b">> -> <<"float", 50>>
      [] id = <<"c">> -> <<"float", 50>>
      [] id = <<"d">> -> <<"float", 30>>
      [] OTHER -> Null

\* (topped, hold, plus)
Performances ==
    {<<FALSE, 1, FALSE>>, <<FALSE, 1, TRUE>>, <<FALSE, 2, FALSE>>,
     <<TRUE, 1, FALSE>>, <<TRUE, 1, TRUE>>}

RosterIds == {Roster[i].id : i \in 1..Len(Roster)}

\* every assignment of a performance to the athletes
PerformanceMaps == [RosterIds -> Performances]

\* the results of performances perf (by id) with the times of the pool
PoolResults(perf) ==
    [id \in DOMAIN perf |->
        LeadResult(perf[id][1], perf[id][2], perf[id][3], PoolTime(id))]

\* previous ranks that split every group; ones that leave a and b tied at
\* the first rank and say nothing of c; ones that leave a and b tied behind c
SplitRanks ==
    <<<<<<"d">>, 1>>, <<<<"c">>, 2>>, <<<<"b">>, 3>>, <<<<"a">>, 4>>, <<<<"e">>, 5>>>>

PartialRanks == <<<<<<"a">>, 1>>, <<<<"b">>, 1>>, <<<<"d">>, 2>>>>

TiedRanks == <<<<<<"c">>, 1>>, <<<<"a">>, 2>>, <<<<"b">>, 2>>, <<<<"d">>, 2>>>>

\* ones that say nothing of a, and ones that only rank b
LateRanks == <<<<<<"c">>, 1>>, <<<<"b">>, 2>>, <<<<"d">>, 3>>>>

OneRank == <<<<<<"b">>, 3>>>>

\* rosters of varied performances
PerfInputs ==
    {RankingInput(Roster, PoolResults(perf), resolver, podium_places) :
        perf \in PerformanceMaps,
        resolver \in {None,
                      Resolver(RanksFrom(SplitRanks), Decides("yes", None)),
                      Resolver(RanksFrom(PartialRanks), Decides("pending", None))},
        podium_places \in {1, 2}}

\* everyone tied on performance, or everyone behind a
TiePerformances ==
    {[id \in RosterIds |-> <<FALSE, 1, FALSE>>],
     [id \in RosterIds |-> IF id = <<"a">> THEN <<TRUE, 1, FALSE>> ELSE <<FALSE, 1, FALSE>>]}

TimeSeconds == {Null, <<"float", 0>>, <<"float", 50>>, <<"float", 70>>, <<"nan">>}

\* one tie with varied times, sent to the time stage
TimeInputs ==
    {RankingInput(Roster,
                  [id \in RosterIds |-> LeadResult(FALSE, 1, FALSE, times[id])],
                  Resolver(prev, Decides("yes", None)), podium_places) :
        times \in [RosterIds -> TimeSeconds],
        prev \in {Decides("no", None), RanksFrom(PartialRanks), RanksFrom(TiedRanks)},
        podium_places \in {1, 3}}

PrevBehaviours ==
    {Raises, ReturnsNone, Decides("maybe", None), Decides("pending", None),
     Decides("no", None), Decides("yes", None), Decides("yes", Some(<<>>)),
     Decides("yes", Some(<<<<<<"a">>, 1>>, <<<<"z">>, 2>>>>)),
     Decides("yes", Some(<<<<<<"b">>, 0>>, <<<<"c">>, 1>>>>)),
     RanksFrom(SplitRanks), RanksFrom(PartialRanks), RanksFrom(TiedRanks),
     RanksFrom(LateRanks), RanksFrom(OneRank)}

TimeBehaviours ==
    {Raises, ReturnsNone, Decides("maybe", None), Decides("pending", None),
     Decides("no", None), Decides("yes", None)}

\* one tie, at rank 1 or behind a, with varied resolvers
TieInputs ==
    {RankingInput(Roster, PoolResults(perf), Resolver(prev, time), podium_places) :
        perf \in TiePerformances,
        prev \in PrevBehaviours,
        time \in TimeBehaviours,
        podium_places \in {0, 1, 2}}

\* the permutations of a sequence
Permuted(seq) ==
    {[i \in 1..Len(seq) |-> seq[p[i]]] :
        p \in {q \in [1..Len(seq) -> 1..Len(seq)] :
                  \A i, k \in 1..Len(seq) : q[i] = q[k] => i = k}}

\* rosters in every order
OrderInputs ==
    {RankingInput(athletes, PoolResults(perf), resolver, podium_places) :
        athletes \in Permuted(Roster),
        perf \in TiePerformances
                   \cup {[id \in RosterIds \ {<<"b">>} |-> <<FALSE, 2, TRUE>>],
                         [id \in {<<"c">>} |-> <<FALSE, 2, TRUE>>],
                         [id \in {} |-> <<FALSE, 2, TRUE>>]},
        resolver \in {None,
                      Resolver(RanksFrom(SplitRanks), Decides("yes", None)),
                      Resolver(RanksFrom(PartialRanks), Decides("pending", None)),
                      Resolver(Decides("no", None), Decides("yes", None))},
        podium_places \in {1, 3}}

RankingInputs == PerfInputs \cup TimeInputs \cup TieInputs \cup OrderInputs

\* a call: its arguments, its result, the contexts the resolver was called
\* with, and the rows as they stood before the podium safety pass
RankCall(input) ==
    [phase |-> "call", input |-> Some(input), result |-> None, calls |-> <<>>,
     split |-> <<>>]

InitRanking ==
    /\ focus = "ranking"
    /\ state = default_state(Some(1), 1)
    /\ last = NoEvent
    /\ tab = None
    /\ retired = {}
    /\ gate = GateIdle
    /\ form = FormIdle
    /\ ranking \in {RankCall(input) : input \in RankingInputs}

Compute ==
    /\ ranking.phase = "call"
    /\ LET arg == Get(ranking.input)
       IN ranking' =
            [ranking EXCEPT
                !.phase = "done",
                !.result = Some(compute_lead_ranking(
                               arg.athletes, arg.results, arg.tie_break_resolver,
                               arg.podium_places, arg.round_name)),
                !.calls = ResolveCalls(arg.athletes, arg.results, arg.tie_break_resolver,
                                       arg.podium_places, arg.round_name),
                !.split = SplitRows(arg.athletes, arg.results, arg.tie_break_resolver,
                                    arg.podium_places, arg.round_name)]
    /\ UNCHANGED <<state, last, tab, retired, focus, gate, form>>

NextRanking == Compute

SpecRanking == InitRanking /\ [][NextRanking]_vars

(***************************************************************************)
(* Properties.                                                             *)
(***************************************************************************)
\* the gate's verdict on a command carrying the pair (sessionId, boxVersion)
Verdict(sessionId, boxVersion, require_session) ==
    validate_session_and_version(
        state, [sessionId |-> sessionId, boxVersion |-> boxVersion], require_session).kind

\* C1: along every sequence of commands from default_state, boxVersion is
\* >= 0, never decreases from one state to the next while sessionId is
\* unchanged, and every INIT_ROUTE increases it by exactly 1.
C1_BoxVersionMonotone ==
    /\ [](state.boxVersion >= 0)
    /\ [][/\ state'.sessionId = state.sessionId => state'.boxVersion >= state.boxVersion
          /\ last'.type = "INIT_ROUTE" => state'.boxVersion = state.boxVersion + 1]_vars

\* an INIT_ROUTE applied to a box whose version was already raised
C1_Witness == last.type = "INIT_ROUTE" /\ state.boxVersion = 2

\* C2: after RESET_BOX or RESET_PARTIAL with unmarkAll, the gate with
\* require_session rejects with stale_session every command carrying a
\* sessionId the box had before such a reset, in that state and in every
\* later one.
C2_RetiredSessionStale ==
    \A sid \in retired : \A bv \in Versions :
        Verdict(Some(sid), bv, TRUE) = "stale_session"

\* a restart of the box, then a later command
C2_Witness ==
    /\ Cardinality(retired) = 1
    /\ last.type = "INIT_ROUTE"
    /\ state.boxVersion = 2

C4_TabStaleAfterInitRoute ==
    (tab # None /\ last.type = "INIT_ROUTE") =>
        /\ \A r \in BOOLEAN :
              Verdict(Get(tab).sessionId, Some(Get(tab).boxVersion), r)
                  \in {"stale_version", "stale_session"}
        /\ Verdict(None, Some(Get(tab).boxVersion), FALSE) = "stale_version"

\* the tab read an initiated box of the same session, then INIT_ROUTE came
C4_Witness ==
    /\ tab # None
    /\ last.type = "INIT_ROUTE"
    /\ Get(tab).sessionId = state.sessionId
    /\ Get(tab).boxVersion = 1
    /\ state.boxVersion = 2

\* C5: boxVersion is incremented by SUBMIT_SCORE, so that once tab A's
\* SUBMIT_SCORE is applied, a command of tab B carrying the same sessionId
\* and the boxVersion B read before the submit is rejected with stale_version.
C5_SubmitScoreBumpsVersion ==
    (/\ tab # None
     /\ last.type = "SUBMIT_SCORE"
     /\ ~last.raised
     /\ Get(tab).sessionId = state.sessionId)
        => Verdict(Get(tab).sessionId, Some(Get(tab).boxVersion), TRUE) = "stale_version"

\* positions of the roster entries named name
Positions(name) == {i \in 1..Len(state.competitors) : state.competitors[i].nume = name}

\* C6: in every reachable state preparingClimber is empty or names a
\* competitor that is unmarked and positioned after currentClimber in the
\* roster, also after an INIT_ROUTE whose entries carry marked = true.
C6_PreparingUnmarkedAfterCurrent ==
    state.preparingClimber # <<>> =>
        \E i \in Positions(state.preparingClimber) :
            /\ ~state.competitors[i].marked
            /\ \E j \in Positions(state.currentClimber) : j < i

\* C7: in every reachable state every entry scores[name][i] and
\* times[name][i] that exists has 0 <= i < routeIndex, also after an
\* INIT_ROUTE with a routeIndex lower than the current one and above 1.
C7_EntriesBelowRouteIndex ==
    \A m \in {DictOrEmpty(state.scores), DictOrEmpty(state.times)} :
        \A name \in DOMAIN m : Len(m[name]) <= state.routeIndex

\* every entry of map old is in map new with the same value
Preserved(old, new) == \A k \in DOMAIN old : k \in DOMAIN new /\ new[k] = old[k]

\* C8: INIT_ROUTE with routeIndex = 1 leaves scores and times empty and
\* clears both tiebreak decision maps, the previous-rounds order and rank
\* maps and the resolved fingerprint/decision pointers; INIT_ROUTE with
\* routeIndex > 1 leaves every existing entry of scores, times and the
\* tiebreak maps unchanged.
C8_InitRouteScoresFrame ==
    [][last'.type = "INIT_ROUTE" =>
          IF state'.routeIndex = 1
          THEN /\ state'.scores = Some(EmptyMap)
               /\ state'.times = Some(EmptyMap)
               /\ state'.timeTiebreakDecisions = EmptyMap
               /\ state'.prevRoundsTiebreakDecisions = EmptyMap
               /\ state'.prevRoundsTiebreakOrders = EmptyMap
               /\ state'.prevRoundsTiebreakRanks = EmptyMap
               /\ state'.timeTiebreakResolvedFingerprint = None
               /\ state'.timeTiebreakResolvedDecision = None
               /\ state'.prevRoundsTiebreakResolvedFingerprint = None
               /\ state'.prevRoundsTiebreakResolvedDecision = None
          ELSE /\ Preserved(DictOrEmpty(state.scores), DictOrEmpty(state'.scores))
               /\ Preserved(DictOrEmpty(state.times), DictOrEmpty(state'.times))
               /\ Preserved(state.timeTiebreakDecisions, state'.timeTiebreakDecisions)
               /\ Preserved(state.prevRoundsTiebreakDecisions,
                            state'.prevRoundsTiebreakDecisions)
               /\ Preserved(state.prevRoundsTiebreakOrders,
                            state'.prevRoundsTiebreakOrders)
               /\ Preserved(state.prevRoundsTiebreakRanks,
                            state'.prevRoundsTiebreakRanks)]_vars

\* a second route initialised over recorded scores and tiebreak decisions
C8_Witness ==
    /\ last.type = "INIT_ROUTE"
    /\ state.routeIndex = 2
    /\ DOMAIN DictOrEmpty(state.scores) # {}
    /\ DOMAIN state.timeTiebreakDecisions # {}
    /\ DOMAIN state.prevRoundsTiebreakOrders # {}

\* the name of the first unmarked entry of roster after position from, or ""
FirstUnmarkedAfter(roster, from) ==
    IF \E i \in (from + 1)..Len(roster) : ~roster[i].marked
    THEN roster[CHOOSE i \in (from + 1)..Len(roster) :
                    /\ ~roster[i].marked
                    /\ \A j \in (from + 1)..(i - 1) : roster[j].marked].nume
    ELSE <<>>

\* the name after the first entry called name, or "" when none is called so
NextAfterName(roster, name) ==
    IF \E i \in 1..Len(roster) : roster[i].nume = name
    THEN FirstUnmarkedAfter(roster, CHOOSE i \in 1..Len(roster) :
                                        /\ roster[i].nume = name
                                        /\ \A j \in 1..(i - 1) : roster[j].nume # name)
    ELSE <<>>

C10_TimerStateStarted ==
    /\ state.timerState \in {"idle", "running", "paused"}
    /\ (state.timerState = "running") <=> state.started

\* the timer stopped after having run
C10_Witness ==
    /\ last.type = "STOP_TIMER"
    /\ state.timerState = "paused"
    /\ ~state.started

\* C11: in every reachable state with holdsCount > 0, holdCount satisfies
\* 0 <= holdCount <= holdsCount, also after holdsCount is changed by
\* INIT_ROUTE or by RESET_PARTIAL with unmarkAll (commands within the
\* validator ranges; holdCount in tenths).
C11_HoldCountWithinHolds ==
    /\ state.holdCount >= 0
    /\ state.holdsCount > 0 => state.holdCount <= 10 * state.holdsCount

\* progress reached the top of a route that has holds
C11_Witness ==
    /\ last.type = "PROGRESS_UPDATE"
    /\ state.holdsCount = MaxHold
    /\ state.holdCount = 10 * MaxHold

\* the holdCount the PROGRESS_UPDATE rule prescribes, in tenths: floor + 1
\* for a delta of 1 or none, holdCount + delta for any other delta, then
\* clamped
PrescribedCount(holdCount, holdsCount, delta) ==
    LET raw == IF delta = None \/ delta = Some(10)
               THEN (holdCount \div 10) * 10 + 10
               ELSE holdCount + Get(delta)
        low == IF raw < 0 THEN 0 ELSE raw
    IN IF holdsCount > 0 /\ low > 10 * holdsCount THEN 10 * holdsCount ELSE low

\* C19: PROGRESS_UPDATE computes holdCount as floor(holdCount) + 1 when
\* delta is 1 or absent and as holdCount + delta rounded to one decimal for
\* every other delta in [-10, 10], delta = 0 included (holdCount unchanged);
\* the result is clamped to [0, holdsCount] when holdsCount > 0 and floored
\* at 0 otherwise (holdCount and delta in integer tenths).
C19_ProgressUpdateCount ==
    \A cmd \in ProgressCmds(focus) :
        _apply_transition(state, cmd, FreshUuid).state.holdCount
            = PrescribedCount(state.holdCount, state.holdsCount, cmd.delta)

\* a state with the session and version fields blanked and the two score
\* maps read as the code reads them (absent and empty alike)
Blanked(st) ==
    [st EXCEPT !.sessionId = None,
               !.boxVersion = 0,
               !.scores = Some(DictOrEmpty(st.scores)),
               !.times = Some(DictOrEmpty(st.times))]

\* C12: a RESET_BOX leaves every field except sessionId and boxVersion
\* equal to the fresh default state (routeIndex, holdsCount and
\* timeCriterionEnabled included), gives the state a sessionId different
\* from the one before, and returns snapshot_required = true.
C12_ResetBoxIsDefault ==
    [][last'.type = "RESET_BOX" =>
          /\ Blanked(state') = Blanked(default_state(Some(1), 1))
          /\ state'.sessionId # state.sessionId
          /\ last'.snapshot_required]_vars

\* C13: a RESET_PARTIAL with unmarkAll yields a new sessionId,
\* initiated = false, routeIndex = 1, holdsCount = holdsCounts[0] when that
\* exists, every competitor marked = false with order and names unchanged,
\* currentClimber and preparingClimber empty, scores and times empty,
\* timerState idle, started false, holdCount 0, lastRegisteredTime absent,
\* and remaining = timerPresetSec (absent when there is no preset).
C13_UnmarkAllRestarts ==
    [][last'.type = "RESET_PARTIAL" /\ last'.unmarkAll =>
          /\ state'.sessionId # state.sessionId
          /\ state'.sessionId # None
          /\ state'.initiated = FALSE
          /\ state'.routeIndex = 1
          /\ state.holdsCounts # <<>> => state'.holdsCount = state.holdsCounts[1]
          /\ Len(state'.competitors) = Len(state.competitors)
          /\ \A i \in 1..Len(state.competitors) :
                /\ state'.competitors[i].nume = state.competitors[i].nume
                /\ state'.competitors[i].marked = FALSE
          /\ state'.currentClimber = <<>>
          /\ state'.preparingClimber = <<>>
          /\ DictOrEmpty(state'.scores) = EmptyMap
          /\ DictOrEmpty(state'.times) = EmptyMap
          /\ state'.timerState = "idle"
          /\ state'.started = FALSE
          /\ state'.holdCount = 0
          /\ state'.lastRegisteredTime = None
          /\ state'.remaining = (IF state.timerPresetSec = None THEN None
                                 ELSE Some(10 * Get(state.timerPresetSec)))]_vars

\* after an unmarkAll on a box with a roster, a holdsCounts list and a
\* 01:30 preset
C13_Witness ==
    /\ last.type = "RESET_PARTIAL"
    /\ last.unmarkAll
    /\ state.competitors # <<>>
    /\ state.holdsCounts # <<>>
    /\ state.holdsCount = state.holdsCounts[1]
    /\ state.remaining = Some(900)

\* the last event is a command that restarts the box
RestartEvent(ev) ==
    ev.type = "RESET_BOX" \/ (ev.type = "RESET_PARTIAL" /\ ev.unmarkAll)

Given(raw) == raw \notin {Absent, Null, Str(<<>>)}

\* a given index that coerces to an integer within the roster
InRoster(st, raw) ==
    /\ _coerce_idx(raw) # None
    /\ Get(_coerce_idx(raw)) >= 0
    /\ Get(_coerce_idx(raw)) < Len(st.competitors)

\* a SUBMIT_SCORE whose index ("idx", or "competitorIdx" when the command
\* has no "idx") does not coerce or is out of range
BadSubmitIndex(st, cmd) ==
    \/ Given(cmd.idx) /\ ~InRoster(st, cmd.idx)
    \/ cmd.idx = Absent /\ Given(cmd.competitorIdx) /\ ~InRoster(st, cmd.competitorIdx)

\* a decision outside {yes, no} or an empty fingerprint
BadDecision(decision, fingerprint) ==
    \/ decision \notin {Some("yes"), Some("no")}
    \/ IsNull(fingerprint)
    \/ Tag(fingerprint) = "str" /\ Strip(Val(fingerprint)) = <<>>

\* a ranks object with a non-positive rank under a name
BadRank(ranks) ==
    /\ Tag(ranks) = "dict"
    /\ \E i \in 1..Len(Val(ranks)) :
          /\ Tag(Val(ranks)[i][1]) = "str"
          /\ Strip(Val(Val(ranks)[i][1])) # <<>>
          /\ Tag(Val(ranks)[i][2]) = "int"
          /\ Val(Val(ranks)[i][2]) <= 0

\* the payloads that are to be rejected
Rejected(st, cmd) ==
    CASE cmd.type = "SUBMIT_SCORE" -> BadSubmitIndex(st, cmd)
      [] cmd.type = "SET_TIME_TIEBREAK_DECISION" ->
            BadDecision(cmd.timeTiebreakDecision, cmd.timeTiebreakFingerprint)
      [] cmd.type = "SET_PREV_ROUNDS_TIEBREAK_DECISION" ->
            \/ BadDecision(cmd.prevRoundsTiebreakDecision, cmd.prevRoundsTiebreakFingerprint)
            \/ BadRank(cmd.prevRoundsTiebreakRanksByName)
      [] OTHER -> FALSE

TargetName(st, cmd) ==
    LET raw == IF Given(cmd.idx) THEN cmd.idx
               ELSE IF Given(cmd.competitorIdx) THEN cmd.competitorIdx
               ELSE Absent
    IN IF ~Given(raw) THEN cmd.competitor
       ELSE IF InRoster(st, raw) THEN Some(st.competitors[Get(_coerce_idx(raw)) + 1].nume)
       ELSE None

\* C16: SUBMIT_SCORE resolves its target in the order idx, competitorIdx,
\* competitor: competitors[idx] if idx is present and non-empty, else
\* competitors[competitorIdx] if competitorIdx is present and non-empty
\* (also when idx is present but null or empty), else cmd.competitor; the
\* resolved name is echoed in the payload.
C16_SubmitScoreTarget ==
    \A cmd \in SubmitScoreCmds(focus) :
        TargetName(state, cmd) # None =>
            /\ ~_apply_transition(state, cmd, FreshUuid).raised
            /\ _apply_transition(state, cmd, FreshUuid).cmd_payload.competitor
                  = TargetName(state, cmd)
            /\ \A i \in 1..Len(state.competitors) :
                  state.competitors[i].nume = Get(TargetName(state, cmd)) =>
                      \E j \in 1..Len(state.competitors) :
                          /\ state.competitors[j].nume = Get(TargetName(state, cmd))
                          /\ _apply_transition(state, cmd, FreshUuid).state.competitors[j].marked

\* the time a raw registeredTime stands for when it coerces to a finite
\* number >= 0, None otherwise
AcceptedTime(raw) ==
    IF _coerce_optional_time(raw) # None /\ Get(_coerce_optional_time(raw)) >= 0
    THEN _coerce_optional_time(raw)
    ELSE None

\* the entry of times for name at route_idx, None when there is none
TimeEntry(st, name, route_idx) ==
    IF HasKey(DictOrEmpty(st.times), name)
       /\ Len(DictOrEmpty(st.times)[name]) >= route_idx + 1
    THEN DictOrEmpty(st.times)[name][route_idx + 1]
    ELSE None

\* the time SUBMIT_SCORE is to record: the command's, else the state's
ResolvedTime(st, cmd) ==
    IF AcceptedTime(cmd.registeredTime) # None THEN AcceptedTime(cmd.registeredTime)
    ELSE st.lastRegisteredTime

\* C17: SUBMIT_SCORE records the command's registeredTime if it coerces to a
\* finite non-negative number; otherwise (absent, non-coercible or negative)
\* the state's lastRegisteredTime if present; otherwise no time.  The
\* resolved time is written to times[name][routeIndex - 1] only when
\* present, and lastRegisteredTime is set to the resolved time.
C17_SubmitScoreTime ==
    \A cmd \in SubmitScoreCmds(focus) :
        LET out == _apply_transition(state, cmd, FreshUuid)
            name == out.cmd_payload.competitor
            route_idx == state.routeIndex - 1
        IN ~out.raised =>
              /\ out.state.lastRegisteredTime = ResolvedTime(state, cmd)
              /\ name # None /\ name # Some(<<>>) =>
                    TimeEntry(out.state, Get(name), route_idx)
                       = IF ResolvedTime(state, cmd) # None THEN ResolvedTime(state, cmd)
                         ELSE TimeEntry(state, Get(name), route_idx)

\* C18: REGISTER_TIME sets lastRegisteredTime to the command's
\* registeredTime exactly when that value coerces to a finite number >= 0;
\* for an absent, null, boolean, non-numeric or negative value
\* lastRegisteredTime keeps its previous value; no other field changes.
C18_RegisterTimeAccepts ==
    \A cmd \in RegisterTimeCmds(focus) :
        _apply_transition(state, cmd, FreshUuid).state
            = [state EXCEPT !.lastRegisteredTime =
                   IF AcceptedTime(cmd.registeredTime) # None
                   THEN AcceptedTime(cmd.registeredTime)
                   ELSE @]

\* the command types with a transition, TIMER_SYNC apart
SnapshotTypes ==
    {"INIT_ROUTE", "START_TIMER", "STOP_TIMER", "RESUME_TIMER", "PROGRESS_UPDATE",
     "REGISTER_TIME", "SET_TIMER_PRESET", "SUBMIT_SCORE", "SET_TIME_CRITERION",
     "SET_TIME_TIEBREAK_DECISION", "SET_PREV_ROUNDS_TIEBREAK_DECISION",
     "RESET_PARTIAL", "RESET_BOX"}

\* C20: TIMER_SYNC sets remaining to the command's value, leaves every other
\* state field unchanged and returns snapshot_required = false; every other
\* command type that has a transition returns snapshot_required = true, so
\* no field other than remaining changes without a snapshot.
C20_OnlyTimerSyncSkipsSnapshot ==
    [][/\ last'.type = "TIMER_SYNC" =>
             /\ \E cmd \in TimerSyncCmds(focus) :
                   state' = [state EXCEPT !.remaining = cmd.remaining]
             /\ ~last'.snapshot_required
       /\ last'.type \in SnapshotTypes /\ ~last'.raised => last'.snapshot_required
       /\ state' # [state EXCEPT !.remaining = state'.remaining] =>
             last'.snapshot_required]_vars

\* a TIMER_SYNC applied while the timer runs
C20_Witness ==
    /\ last.type = "TIMER_SYNC"
    /\ ~last.snapshot_required
    /\ state.remaining = Some(420)
    /\ state.timerState = "running"
    /\ state.started

\* the sixteen command types the validator is to recognize
RecognizedTypes ==
    {"START_TIMER", "STOP_TIMER", "RESUME_TIMER", "PROGRESS_UPDATE",
     "REQUEST_ACTIVE_COMPETITOR", "SUBMIT_SCORE", "INIT_ROUTE", "REQUEST_STATE",
     "SET_TIME_CRITERION", "SET_TIME_TIEBREAK_DECISION",
     "SET_PREV_ROUNDS_TIEBREAK_DECISION", "REGISTER_TIME", "TIMER_SYNC",
     "ACTIVE_CLIMBER", "RESET_PARTIAL", "RESET_BOX"}

\* C21: the validator accepts a command's type if and only if it is one of
\* the sixteen recognized types (RESET_PARTIAL, SET_TIME_TIEBREAK_DECISION
\* and SET_PREV_ROUNDS_TIEBREAK_DECISION included); any other type is
\* rejected.  Stated on constructions whose other fields are all valid.
C21_RecognizedTypesAccepted ==
    form.phase = "done" /\ form.fields = FullFields(form.fields.type) =>
        (form.errors = {} <=> form.fields.type \in RecognizedTypes)

\* C22: the validator accepts a SUBMIT_SCORE when at least one of
\* competitor, competitorIdx or idx is present (idx alone included) and
\* rejects it when all three are absent.  Stated on constructions whose
\* fields pass their own constraints.
C22_SubmitScoreNeedsOneTarget ==
    /\ form.phase = "done"
    /\ form.fields.type = "SUBMIT_SCORE"
    /\ FieldErrors(form.fields) = {}
    => (form.errors = {} <=>
            \/ form.fields.competitor # None
            \/ form.fields.competitorIdx # None
            \/ form.fields.idx # None)


(***************************************************************************)
(* The ranking engine: properties of one call of compute_lead_ranking.     *)
(***************************************************************************)
RankingDone == ranking.phase = "done"

\* the arguments and the result of the call
Arg == Get(ranking.input)

Out == Get(ranking.result)

\* the podium threshold the call works with
Places == IF Arg.podium_places = 0 THEN 3 ELSE Arg.podium_places

RowIndices == 1..Len(Out.rows)

\* the result the athlete of a row was given
ResultOf(row) == Arg.results[row.athlete_id]

\* performance x strictly dominates y: topped, then hold, then plus counted
\* only when not topped
Dominates(x, y) ==
    \/ x.topped /\ ~y.topped
    \/ x.topped = y.topped /\ x.hold > y.hold
    \/ x.topped = y.topped /\ x.hold = y.hold /\ ~x.topped /\ x.plus /\ ~y.plus

\* the same performance key
SamePerformance(x, y) == ~Dominates(x, y) /\ ~Dominates(y, x)

\* C23: in every output of compute_lead_ranking, if athlete A's performance
\* strictly dominates B's under (topped, then hold, then plus counted only
\* when not topped), then A.rank < B.rank, also after the podium-boundary
\* collapse.
C23_DominantRankedBefore ==
    RankingDone =>
        \A i, k \in RowIndices :
            Dominates(ResultOf(Out.rows[i]), ResultOf(Out.rows[k]))
                => Out.rows[i].rank < Out.rows[k].rank

\* an athlete ahead by the plus alone of two who share a rank beyond the
\* podium
C23_Witness ==
    /\ RankingDone
    /\ \E i, k, m \in RowIndices :
          /\ k # m
          /\ ResultOf(Out.rows[i]).plus /\ ~ResultOf(Out.rows[k]).plus
          /\ ResultOf(Out.rows[i]).hold = ResultOf(Out.rows[k]).hold
          /\ Dominates(ResultOf(Out.rows[i]), ResultOf(Out.rows[k]))
          /\ Out.rows[k].rank = Out.rows[m].rank
          /\ Out.rows[k].rank > Places

\* the rank the tie-break stages gave an athlete, before the podium safety
\* pass
SplitRank(athlete_id) ==
    ranking.split[CHOOSE i \in 1..Len(ranking.split) :
                      ranking.split[i].athlete_id = athlete_id].rank

\* the rows of the performance group of a row
GroupOf(row) ==
    {i \in RowIndices : SamePerformance(ResultOf(Out.rows[i]), ResultOf(row))}

\* C24: in every output, two athletes with the same performance key whose
\* ranks are both beyond podium_places have the same rank; a group that lies
\* wholly beyond the podium has its minimum rank, and in a group that
\* straddles the boundary the members ranked within the podium keep their
\* split ranks while the tail shares the tail's minimum rank.
C24_NoSplitBeyondPodium ==
    RankingDone =>
        \A i \in RowIndices :
            LET row == Out.rows[i]
                group == GroupOf(row)
                split == {SplitRank(Out.rows[k].athlete_id) : k \in group}
                tail == {r \in split : r > Places}
            IN /\ \A k \in group :
                      (row.rank > Places /\ Out.rows[k].rank > Places)
                          => row.rank = Out.rows[k].rank
               /\ (\A r \in split : r > Places)
                      => \A r \in split : row.rank <= r
               /\ SplitRank(row.athlete_id) <= Places
                      => row.rank = SplitRank(row.athlete_id)
               /\ SplitRank(row.athlete_id) > Places
                      => /\ row.rank \in tail
                         /\ \A r \in tail : row.rank <= r

\* a tie split into three ranks of which only the first is on the podium
C24_Witness ==
    /\ RankingDone
    /\ \E i, k, m \in RowIndices :
          /\ {k, m} \subseteq GroupOf(Out.rows[i])
          /\ SplitRank(Out.rows[i].athlete_id) <= Places
          /\ Places < SplitRank(Out.rows[k].athlete_id)
          /\ SplitRank(Out.rows[k].athlete_id) < SplitRank(Out.rows[m].athlete_id)
          /\ Out.rows[k].rank = Out.rows[m].rank

EventIndices == 1..Len(Out.tie_events)

\* a tie event that leaves the podium open
OpenPodiumEvent(event) == event.affects_podium /\ event.status \in {"pending", "error"}

\* C25: is_resolved is true if and only if no tie event has affects_podium
\* and a status of pending or error; has_pending_podium_ties is the negation
\* of is_resolved; and no output is resolved while two rows share a rank
\* within podium_places.
C25_ResolvedIffNoOpenPodiumEvent ==
    RankingDone =>
        /\ Out.is_resolved <=> ~\E e \in EventIndices : OpenPodiumEvent(Out.tie_events[e])
        /\ Out.has_pending_podium_ties <=> ~Out.is_resolved
        /\ Out.is_resolved =>
              ~\E i, k \in RowIndices :
                  /\ i # k
                  /\ Out.rows[i].rank = Out.rows[k].rank
                  /\ Out.rows[i].rank <= Places

\* a resolved output with a pending tie behind the podium
C25_Witness ==
    /\ RankingDone
    /\ Out.is_resolved
    /\ \E e \in EventIndices :
          /\ Out.tie_events[e].status = "pending"
          /\ ~Out.tie_events[e].affects_podium
    /\ \E i, k \in RowIndices : i # k /\ Out.rows[i].rank = Out.rows[k].rank

\* the call's athletes in the order of their ids
ById(athletes) ==
    SortedByKey([i \in 1..Len(athletes) |-> <<StrKey(athletes[i].id), athletes[i]>>])

\* the fingerprints of a sequence of tie events or of contexts
Fingerprints(seq) == [i \in 1..Len(seq) |-> seq[i].fingerprint]

\* C26: permuting the input athlete list (same results, same podium_places,
\* a resolver that depends only on the tie context) changes no tie
\* fingerprint, neither of the events nor of the contexts handed to the
\* resolver, and changes neither the rows nor the tie events: every order
\* of the list gives what the order by id gives.
C26_OrderOfAthletesIrrelevant ==
    (RankingDone /\ Arg.athletes # ById(Arg.athletes)) =>
        /\ Out = compute_lead_ranking(ById(Arg.athletes), Arg.results,
                                      Arg.tie_break_resolver, Arg.podium_places,
                                      Arg.round_name)
        /\ Fingerprints(ranking.calls)
              = Fingerprints(ResolveCalls(ById(Arg.athletes), Arg.results,
                                          Arg.tie_break_resolver, Arg.podium_places,
                                          Arg.round_name))

\* a roster passed in another order than by id, with a tie of two athletes
\* whose names differ in case only
C26_Witness ==
    /\ RankingDone
    /\ Arg.athletes # ById(Arg.athletes)
    /\ \E e \in EventIndices :
          \E i, k \in 1..Len(Out.tie_events[e].members) :
              /\ i < k
              /\ Out.tie_events[e].members[i].athlete_name
                    # Out.tie_events[e].members[k].athlete_name
              /\ NameLower(Out.tie_events[e].members[i].athlete_name)
                    = NameLower(Out.tie_events[e].members[k].athlete_name)

CallIndices == 1..Len(ranking.calls)

ContextIds(context) == {context.athletes[i].id : i \in 1..Len(context.athletes)}

\* what the resolver of the call answers to a context
Answer(context) == resolve(Arg.tie_break_resolver, context.athletes, context)

\* the resolver answers yes with a valid rank map to a previous-rounds context
ValidYes(context) ==
    /\ context.stage = "previous_rounds"
    /\ Answer(context)[1] = "decision"
    /\ Answer(context)[2].choice = "yes"
    /\ Answer(context)[2].previous_ranks_by_athlete # None
    /\ LET dict == Get(Answer(context)[2].previous_ranks_by_athlete)
       IN /\ dict # <<>>
          /\ DictKeys(dict) \subseteq ContextIds(context)
          /\ \A i \in 1..Len(dict) : dict[i][2] >= 1

SuppliedRanks(context) == Get(Answer(context)[2].previous_ranks_by_athlete)

Covered(context) == DictKeys(SuppliedRanks(context))

Uncovered(context) == ContextIds(context) \ Covered(context)

\* the previous-rounds contexts answered yes with a valid map that covers
\* only some of the members
PartialContexts ==
    {ranking.calls[k] : k \in {c \in CallIndices :
        /\ ValidYes(ranking.calls[c])
        /\ ranking.calls[c].affects_podium
        /\ Uncovered(ranking.calls[c]) # {}}}

\* the covered members come first, in ascending previous rank
CoveredFirst(context) ==
    /\ \A x \in Covered(context) :
          /\ SplitRank(x) >= context.rank_start
          /\ SplitRank(x) < context.rank_start + Cardinality(Covered(context))
    /\ \A x, y \in Covered(context) :
          DictGet(SuppliedRanks(context), x) < DictGet(SuppliedRanks(context), y)
              => SplitRank(x) < SplitRank(y)

\* the uncovered members are one chunk behind the covered ones
UncoveredTrail(context) ==
    \A u \in Uncovered(context) :
        SplitRank(u) = context.rank_start + Cardinality(Covered(context))

\* the pending previous-rounds events of the tie group of a context
PendingEventsOf(context) ==
    {e \in EventIndices :
        /\ Out.tie_events[e].stage = "previous_rounds"
        /\ Out.tie_events[e].status = "pending"
        /\ Out.tie_events[e].fingerprint = context.fingerprint}

\* one pending previous-rounds event, with the supplied map and the sorted
\* uncovered ids
OnePendingEvent(context) ==
    /\ Cardinality(PendingEventsOf(context)) = 1
    /\ \A e \in PendingEventsOf(context) :
          /\ Out.tie_events[e].known_prev_ranks_by_athlete
                = Some(AsDict(SuppliedRanks(context)))
          /\ Out.tie_events[e].missing_prev_rounds_athlete_ids # None
          /\ LET missing == Get(Out.tie_events[e].missing_prev_rounds_athlete_ids)
             IN /\ {missing[i] : i \in 1..Len(missing)} = Uncovered(context)
                /\ \A i, k \in 1..Len(missing) :
                       i < k => LexLess(StrKey(missing[i]), StrKey(missing[k]))

\* the errors about the ranks from rank_start to rank_end
ErrorsWithin(rank_start, rank_end) ==
    {i \in 1..Len(Out.errors) :
        /\ Out.errors[i][2].rank_start >= rank_start
        /\ Out.errors[i][2].rank_end <= rank_end}

\* C27: for a podium-touching tie group whose previous-rounds decision is
\* yes with a valid rank map covering only some members: the covered members
\* are ranked first in ascending previous rank, the uncovered members form
\* one trailing chunk behind them, exactly one pending previous_rounds event
\* is emitted, with known_prev_ranks_by_athlete the supplied map and
\* missing_prev_rounds_athlete_ids the sorted uncovered ids, errors stays
\* empty, and is_resolved is false.
C27_PartialPreviousRanks ==
    RankingDone =>
        \A context \in PartialContexts :
            /\ CoveredFirst(context)
            /\ UncoveredTrail(context)
            /\ OnePendingEvent(context)
            /\ ErrorsWithin(context.rank_start, context.rank_end) = {}
            /\ ~Out.is_resolved

\* the supplied ranks are pairwise distinct
DistinctRanks(context) ==
    \A x, y \in Covered(context) :
        x # y => DictGet(SuppliedRanks(context), x) # DictGet(SuppliedRanks(context), y)

\* C27 as the code has it: errors stays empty when the covered members have
\* distinct previous ranks; covered members sharing a previous rank go to the
\* time stage, and any error about the group is that stage's.
C27_PartialPreviousRanksAmended ==
    RankingDone =>
        \A context \in PartialContexts :
            /\ CoveredFirst(context)
            /\ UncoveredTrail(context)
            /\ OnePendingEvent(context)
            /\ DistinctRanks(context)
                  => ErrorsWithin(context.rank_start, context.rank_end) = {}
            /\ \A i \in ErrorsWithin(context.rank_start, context.rank_end) :
                  Out.errors[i][2].stage = "time"
            /\ ~Out.is_resolved

\* a partial map of distinct ranks in a group of three
C27_Witness ==
    /\ RankingDone
    /\ \E context \in PartialContexts :
          /\ DistinctRanks(context)
          /\ Cardinality(Covered(context)) >= 2

\* a partial map whose covered members share a previous rank
C27_WitnessTied ==
    /\ RankingDone
    /\ \E context \in PartialContexts :
          /\ ~DistinctRanks(context)
          /\ ErrorsWithin(context.rank_start, context.rank_end) # {}

\* the time_seconds of an athlete of the call
TimeOf(athlete_id) == Arg.results[athlete_id].time_seconds

\* the time-stage contexts of ties that affect the podium, answered yes,
\* whose members all have a finite time_seconds >= bound (in tenths)
TimedContexts(bound) ==
    {ranking.calls[k] : k \in {c \in CallIndices :
        /\ ranking.calls[c].stage = "time"
        /\ ranking.calls[c].affects_podium
        /\ Answer(ranking.calls[c])[1] = "decision"
        /\ Answer(ranking.calls[c])[2].choice = "yes"
        /\ \A id \in ContextIds(ranking.calls[c]) :
              Tag(TimeOf(id)) = "float" /\ Val(TimeOf(id)) >= bound}}

\* the members are ranked in ascending time, equal times sharing a rank
RankedByTime(context) ==
    \A x, y \in ContextIds(context) :
        /\ Val(TimeOf(x)) < Val(TimeOf(y)) => SplitRank(x) < SplitRank(y)
        /\ Val(TimeOf(x)) = Val(TimeOf(y)) => SplitRank(x) = SplitRank(y)

\* C28: when the time stage of a podium-affecting tie group is answered yes
\* and every member has a finite time_seconds >= 0 (0 included), the members
\* are ordered ascending by time_seconds: a strictly smaller time gets a
\* strictly smaller rank, and equal times share a rank.
C28_TimeStageOrdersByTime ==
    RankingDone => \A context \in TimedContexts(0) : RankedByTime(context)

\* the same for times that are all greater than 0
C28_PositiveTimesOrdered ==
    RankingDone => \A context \in TimedContexts(1) : RankedByTime(context)

\* a behaviour of resolve() that is a fault: it raises, returns nothing, or
\* returns a choice that is none of yes, no, pending
Faulty(does) ==
    \/ does[1] \in {"raise", "none"}
    \/ does[1] = "decision" /\ does[2].choice \notin {"yes", "no", "pending"}

\* the resolver with every fault replaced by a pending decision
Pending(does) == IF Faulty(does) THEN Decides("pending", None) ELSE does

WithoutFaults(resolver) ==
    IF resolver = None THEN None
    ELSE [prev |-> <<Pending(resolver.prev[1]), Pending(resolver.prev[2])>>,
          time |-> <<Pending(resolver.time[1]), Pending(resolver.time[2])>>]

\* the performance groups of several athletes that start within the podium,
\* as sets of ids
PodiumTieGroups ==
    {g \in {{Out.rows[k].athlete_id : k \in GroupOf(Out.rows[i])} : i \in RowIndices} :
        /\ Cardinality(g) > 1
        /\ \E id \in g : SplitRank(id) <= Places}

CallsOf(stage) == {c \in CallIndices : ranking.calls[c].stage = stage}

\* C29: within one ranking computation the resolver is called at most once
\* per tie group per stage: once with stage previous_rounds for each
\* podium-touching performance group, and at most once with stage time for
\* the group or for each previous-rank partition of several members; a call
\* that raises, returns nothing, or returns a choice outside yes, no,
\* pending is handled exactly as a pending decision; and compute_lead_ranking
\* always returns a result.
C29_ResolverCalledOncePerStage ==
    RankingDone =>
        /\ ranking.result # None
        /\ \A c, d \in CallIndices :
              c # d => ranking.calls[c].fingerprint # ranking.calls[d].fingerprint
        /\ Arg.tie_break_resolver # None =>
              /\ \A g \in PodiumTieGroups :
                    Cardinality({c \in CallsOf("previous_rounds") :
                                    ContextIds(ranking.calls[c]) = g}) = 1
              /\ \A c \in CallsOf("previous_rounds") :
                    ContextIds(ranking.calls[c]) \in PodiumTieGroups
        /\ \A c \in CallsOf("time") :
              /\ Cardinality(ContextIds(ranking.calls[c])) > 1
              /\ \E p \in CallsOf("previous_rounds") :
                    /\ p < c
                    /\ ContextIds(ranking.calls[c]) \subseteq ContextIds(ranking.calls[p])
              /\ \A d \in CallsOf("time") :
                    c # d => ContextIds(ranking.calls[c]) \cap ContextIds(ranking.calls[d])
                                = {}
        /\ WithoutFaults(Arg.tie_break_resolver) # Arg.tie_break_resolver =>
              Out = compute_lead_ranking(Arg.athletes, Arg.results,
                                         WithoutFaults(Arg.tie_break_resolver),
                                         Arg.podium_places, Arg.round_name)

\* a resolver asked about a tie at both stages whose answer at the time
\* stage is a fault
C29_Witness ==
    /\ RankingDone
    /\ CallsOf("previous_rounds") # {}
    /\ \E c \in CallsOf("time") : Faulty(Answer(ranking.calls[c]))

\* the row of an athlete
RowOf(athlete_id) == Out.rows[CHOOSE i \in RowIndices : Out.rows[i].athlete_id = athlete_id]

\* the athlete alone holds the first previous-rounds partition of its group
AloneFirst(athlete_id) ==
    \E c \in CallsOf("previous_rounds") :
        LET context == ranking.calls[c]
        IN /\ athlete_id \in ContextIds(context)
           /\ ValidYes(context)
           /\ athlete_id \in Covered(context)
           /\ \A other \in Covered(context) \ {athlete_id} :
                  DictGet(SuppliedRanks(context), athlete_id)
                      < DictGet(SuppliedRanks(context), other)

\* at most one row of a podium tie group has tb_prev, and it is the athlete
\* alone in the first previous-rounds partition
PrevBadge ==
    /\ \A g \in PodiumTieGroups :
          Cardinality({id \in g : RowOf(id).tb_prev}) <= 1
    /\ \A i \in RowIndices : Out.rows[i].tb_prev => AloneFirst(Out.rows[i].athlete_id)

\* C30: within one podium-touching tie group at most one row has tb_prev =
\* true, and it is the single athlete that alone occupies the first
\* previous-rounds partition; and every athlete whose group or partition was
\* passed to the time stage has tb_time = true, whether or not the time
\* stage split them, also when the time decision was pending, no, or could
\* not be applied.
C30_Badges ==
    RankingDone =>
        /\ PrevBadge
        /\ \A c \in CallsOf("time") :
              \A id \in ContextIds(ranking.calls[c]) : RowOf(id).tb_time

\* the badges as the code sets them: tb_time only where the time decision
\* was yes and every member had a time
C30_BadgesWhenTimeApplied ==
    RankingDone =>
        /\ PrevBadge
        /\ \A c \in CallsOf("time") :
              \A id \in ContextIds(ranking.calls[c]) :
                  RowOf(id).tb_time <=>
                      /\ ~Faulty(Answer(ranking.calls[c]))
                      /\ Answer(ranking.calls[c])[2].choice = "yes"
                      /\ \A m \in ContextIds(ranking.calls[c]) : Tag(TimeOf(m)) = "float"

\* the previous-rounds contexts of podium ties answered yes with a valid map
\* that covers every member
FullContexts ==
    {ranking.calls[k] : k \in {c \in CallIndices :
        /\ ValidYes(ranking.calls[c])
        /\ ranking.calls[c].affects_podium
        /\ Uncovered(ranking.calls[c]) = {}}}

PrevRank(context, athlete_id) == DictGet(SuppliedRanks(context), athlete_id)

\* the members of a context with the previous rank of one of them
SamePrevRank(context, athlete_id) ==
    {y \in ContextIds(context) : PrevRank(context, y) = PrevRank(context, athlete_id)}

\* C31: when a previous-rounds decision is yes with a valid rank map covering
\* every member of a podium-touching tie group, a member with a strictly
\* smaller previous rank never gets a larger final rank than a member with a
\* larger previous rank, and gets a strictly smaller one when both final
\* ranks are <= podium_places; members with the same previous rank are
\* passed together to the time stage.
C31_FullPreviousRanksOrder ==
    RankingDone =>
        \A context \in FullContexts :
            /\ \A x, y \in ContextIds(context) :
                  PrevRank(context, x) < PrevRank(context, y) =>
                      /\ RowOf(x).rank <= RowOf(y).rank
                      /\ (RowOf(x).rank <= Places /\ RowOf(y).rank <= Places)
                            => RowOf(x).rank < RowOf(y).rank
            /\ \A x \in ContextIds(context) :
                  Cardinality(SamePrevRank(context, x)) > 1 =>
                      Cardinality({c \in CallsOf("time") :
                          ContextIds(ranking.calls[c]) = SamePrevRank(context, x)}) = 1

\* a full map that puts one member before two who share a previous rank
C31_Witness ==
    /\ RankingDone
    /\ \E context \in FullContexts :
          \E x, y, z \in ContextIds(context) :
              /\ y # z
              /\ PrevRank(context, x) < PrevRank(context, y)
              /\ PrevRank(context, y) = PrevRank(context, z)
              /\ RowOf(x).rank < RowOf(y).rank

\* a full map of distinct ranks whose last two members share a final rank
\* behind the podium
C31_WitnessCollapsed ==
    /\ RankingDone
    /\ \E context \in FullContexts :
          \E x, y \in ContextIds(context) :
              /\ PrevRank(context, x) < PrevRank(context, y)
              /\ RowOf(x).rank = RowOf(y).rank

\* the time-stage contexts the resolver answered with a choice
TimeContexts(choice) ==
    {ranking.calls[k] : k \in {c \in CallsOf("time") :
        /\ ~Faulty(Answer(ranking.calls[c]))
        /\ Answer(ranking.calls[c])[2].choice = choice}}

\* the members of a context have one final rank
SharedRank(context) ==
    \A x, y \in ContextIds(context) : RowOf(x).rank = RowOf(y).rank

\* an error string of a prefix about the tie of a context is recorded
ErrorRecorded(prefix, context) ==
    \E i \in 1..Len(Out.errors) :
        Out.errors[i][1] = prefix /\ Out.errors[i][2] = context.fingerprint

\* some member of a context has no finite time_seconds
MissingTime(context) == \E id \in ContextIds(context) : Tag(TimeOf(id)) # "float"

\* C32: when the time stage of a podium-affecting tie group is answered no,
\* the members keep one shared rank, a time-stage event with status error is
\* emitted, an error string beginning
\* podium_time_tiebreak_keep_tied_not_allowed is recorded, and is_resolved
\* is false; when the time stage is answered yes but some member has no
\* finite time_seconds, the members keep one shared rank and an error
\* beginning time_tiebreak_missing_times is recorded.
C32_TimeStageErrors ==
    RankingDone =>
        /\ \A context \in TimeContexts("no") :
              context.affects_podium =>
                  /\ SharedRank(context)
                  /\ \E e \in EventIndices :
                        /\ Out.tie_events[e].stage = "time"
                        /\ Out.tie_events[e].status = "error"
                        /\ Out.tie_events[e].fingerprint = context.fingerprint
                  /\ ErrorRecorded("podium_time_tiebreak_keep_tied_not_allowed", context)
                  /\ ~Out.is_resolved
        /\ \A context \in TimeContexts("yes") :
              MissingTime(context) =>
                  /\ SharedRank(context)
                  /\ ErrorRecorded("time_tiebreak_missing_times", context)

\* a podium tie kept tied at the time stage
C32_Witness ==
    /\ RankingDone
    /\ \E context \in TimeContexts("no") :
          context.affects_podium /\ Cardinality(ContextIds(context)) > 1

\* a time stage answered yes for members of whom one has a time and one has
\* none, behind the podium and on it
C32_WitnessMissing ==
    /\ RankingDone
    /\ \E context \in TimeContexts("yes") :
          /\ MissingTime(context)
          /\ \E id \in ContextIds(context) : Tag(TimeOf(id)) = "float"

C32_WitnessMissingBehind ==
    /\ RankingDone
    /\ \E context \in TimeContexts("yes") : MissingTime(context) /\ ~context.affects_podium

\* the performance groups of several athletes, as sets of ids
TieGroups ==
    {g \in {{Out.rows[k].athlete_id : k \in GroupOf(Out.rows[i])} : i \in RowIndices} :
        Cardinality(g) > 1}

\* the first rank of a performance group: one more than the number of
\* athletes with a better performance
FirstRank(g) ==
    1 + Cardinality({i \in RowIndices :
                        \E id \in g : Dominates(ResultOf(Out.rows[i]), Arg.results[id])})

\* the performance groups of several athletes that start behind the podium
GroupsBehindPodium == {g \in TieGroups : FirstRank(g) > Places}

EventIds(event) == {event.members[i].athlete_id : i \in 1..Len(event.members)}

\* C33: for a performance group of two or more athletes whose first rank is
\* greater than podium_places, the resolver is not called, no tie event is
\* emitted, every member gets the group's first rank, and the group does not
\* make is_resolved false.
C33_GroupBehindPodiumKeepsRank ==
    RankingDone =>
        /\ \A g \in GroupsBehindPodium :
              /\ \A c \in CallIndices : ContextIds(ranking.calls[c]) \cap g = {}
              /\ \A e \in EventIndices : EventIds(Out.tie_events[e]) \cap g = {}
              /\ \A id \in g : RowOf(id).rank = FirstRank(g)
        /\ TieGroups = GroupsBehindPodium => Out.is_resolved

\* a tie of two behind the podium, with a resolver that would split it by
\* previous rounds
C33_Witness ==
    /\ RankingDone
    /\ Arg.tie_break_resolver # None
    /\ Arg.tie_break_resolver.prev[2][1] = "ranks"
    /\ GroupsBehindPodium # {}
    /\ Out.is_resolved

\* the athletes of the call that have a result
WithResult == {i \in 1..Len(Arg.athletes) : Arg.athletes[i].id \in DOMAIN Arg.results}

\* C34: in every ranking output with distinct athlete ids, every athlete of
\* the roster that has a result appears in exactly one row and athletes
\* without a result appear in none; rows are ordered by non-decreasing rank;
\* and each row's rank equals 1 plus the number of rows with a strictly
\* smaller rank (standard competition ranking, also after the
\* podium-boundary collapse).
C34_OneRowPerAthleteCompetitionRanks ==
    (RankingDone /\ \A i, k \in 1..Len(Arg.athletes) :
                        i # k => Arg.athletes[i].id # Arg.athletes[k].id) =>
        /\ \A i \in WithResult :
              Cardinality({r \in RowIndices :
                              Out.rows[r].athlete_id = Arg.athletes[i].id}) = 1
        /\ \A r \in RowIndices :
              \E i \in WithResult : Out.rows[r].athlete_id = Arg.athletes[i].id
        /\ \A r, q \in RowIndices : r < q => Out.rows[r].rank <= Out.rows[q].rank
        /\ \A r \in RowIndices :
              Out.rows[r].rank
                  = 1 + Cardinality({q \in RowIndices : Out.rows[q].rank < Out.rows[r].rank})

\* an athlete without a result beside two with one
C34_Witness ==
    /\ RankingDone
    /\ Cardinality(WithResult) = 2
    /\ Len(Arg.athletes) > 2
    /\ Len(Out.rows) = 2

\* a tie split over the podium boundary whose tail the safety pass merged,
\* and a call without results
C34_WitnessCollapsed ==
    /\ RankingDone
    /\ Len(Out.rows) = 3
    /\ Out.rows[1].rank = 1 /\ Out.rows[2].rank = 2 /\ Out.rows[3].rank = 2
    /\ ranking.split[3].rank = 3

C34_WitnessNoResults == RankingDone /\ WithResult = {} /\ Out.rows = <<>>

\* RESET_PARTIAL without unmarkAll, with the two other flags
ResetPartialCmd(reset_timer, clear_progress) ==
    [Cmd("RESET_PARTIAL") EXCEPT !.resetTimer = reset_timer,
                                 !.clearProgress = clear_progress]

\* what the claim lets a RESET_PARTIAL without unmarkAll make of a state
AfterPartialReset(st, reset_timer, clear_progress) ==
    [st EXCEPT
        !.started = IF reset_timer THEN FALSE ELSE @,
        !.timerState = IF reset_timer THEN "idle" ELSE @,
        !.remaining = IF ~reset_timer THEN @
                      ELSE IF st.timerPresetSec = None THEN None
                      ELSE Some(10 * Get(st.timerPresetSec)),
        !.lastRegisteredTime = IF reset_timer THEN None ELSE @,
        !.holdCount = IF clear_progress THEN 0 ELSE @]

\* C35: RESET_PARTIAL with unmarkAll=false changes only: started,
\* timerState, remaining and lastRegisteredTime when resetTimer is set
\* (remaining becomes timerPresetSec as a number, or absent without a
\* preset), and holdCount when clearProgress is set; sessionId, boxVersion,
\* initiated, routeIndex, competitors and their marked flags,
\* currentClimber, preparingClimber, scores, times and the tiebreak maps
\* are unchanged, and with all three flags false the state is unchanged.
C35_ResetPartialFrame ==
    \A reset_timer, clear_progress \in BOOLEAN :
        LET out == _apply_transition(state, ResetPartialCmd(reset_timer, clear_progress),
                                     FreshUuid)
        IN /\ ~out.raised
           /\ out.state = AfterPartialReset(state, reset_timer, clear_progress)

\* a RESET_PARTIAL without unmarkAll has put remaining back to the preset of
\* 01:30 and left the holds counted as they were
C35_Witness ==
    /\ last.type = "RESET_PARTIAL"
    /\ ~last.unmarkAll
    /\ state.initiated
    /\ state.competitors # <<>>
    /\ state.timerPresetSec = Some(90)
    /\ state.remaining = Some(900)
    /\ state.timerState = "idle"
    /\ state.holdCount > 0

\* a state with a registered time and a running timer, and one with scores,
\* marks and a tiebreak decision, which the reset is to leave alone
C35_WitnessTime == state.started /\ state.lastRegisteredTime # None

C35_WitnessScores ==
    /\ DOMAIN DictOrEmpty(state.scores) # {}
    /\ DOMAIN state.timeTiebreakDecisions # {}
    /\ \E i \in 1..Len(state.competitors) : state.competitors[i].marked

\* the state after a SET_PREV_ROUNDS_TIEBREAK_DECISION that supplies the order
\* "B ", "A", "B", 3 and the ranks A: 1, B: 2 for a fingerprint
AfterPrevRounds(st, decision, fingerprint) ==
    _apply_transition(st, PrevRoundsCmd(Some(decision), Str(fingerprint), OrderBA, RanksAB),
                      FreshUuid).state

\* C36: after any sequence of SET_PREV_ROUNDS_TIEBREAK_DECISION commands
\* (interleaved with any other commands), prevRoundsTiebreakOrders and
\* prevRoundsTiebreakRanks contain an entry for a fingerprint only if
\* prevRoundsTiebreakDecisions maps that fingerprint to yes: a yes decision
\* stores the supplied order/ranks under the fingerprint and a no decision
\* removes any entries stored for it earlier.
C36_OrdersAndRanksOnlyForYes ==
    /\ \A fp \in DOMAIN state.prevRoundsTiebreakOrders
                    \cup DOMAIN state.prevRoundsTiebreakRanks :
          /\ fp \in DOMAIN state.prevRoundsTiebreakDecisions
          /\ state.prevRoundsTiebreakDecisions[fp] = "yes"
    /\ \A fp \in {Fp1, Fp2} :
          LET yes == AfterPrevRounds(state, "yes", fp)
              no == AfterPrevRounds(state, "no", fp)
          IN /\ yes.prevRoundsTiebreakDecisions[fp] = "yes"
             /\ fp \in DOMAIN yes.prevRoundsTiebreakOrders
             /\ yes.prevRoundsTiebreakOrders[fp] = <<B, A>>
             /\ fp \in DOMAIN yes.prevRoundsTiebreakRanks
             /\ yes.prevRoundsTiebreakRanks[fp] = Put(Put(EmptyMap, A, 1), B, 2)
             /\ no.prevRoundsTiebreakDecisions[fp] = "no"
             /\ fp \notin DOMAIN no.prevRoundsTiebreakOrders
             /\ fp \notin DOMAIN no.prevRoundsTiebreakRanks

\* a no decision has come for a fingerprint: nothing is stored for it
C36_Witness ==
    /\ last.type = "SET_PREV_ROUNDS_TIEBREAK_DECISION"
    /\ ~last.raised
    /\ Fp1 \in DOMAIN state.prevRoundsTiebreakDecisions
    /\ state.prevRoundsTiebreakDecisions[Fp1] = "no"
    /\ Fp1 \notin DOMAIN state.prevRoundsTiebreakOrders

\* an order and ranks stored by a yes decision, to be removed by a no
C36_WitnessStored ==
    /\ last.type = "SET_PREV_ROUNDS_TIEBREAK_DECISION"
    /\ Fp1 \in DOMAIN state.prevRoundsTiebreakOrders
    /\ state.prevRoundsTiebreakOrders[Fp1] = <<B, A>>
    /\ Fp1 \in DOMAIN state.prevRoundsTiebreakRanks

\* a resolved pointer pair agrees with its decisions map
PointersAgree(fingerprint, decision, decisions) ==
    fingerprint # None =>
        /\ decision # None
        /\ Get(fingerprint) \in DOMAIN decisions
        /\ decisions[Get(fingerprint)] = Get(decision)

\* no tiebreak decision and no resolved pointer of either stage is left
TiebreaksCleared(st) ==
    /\ st.timeTiebreakDecisions = EmptyMap
    /\ st.timeTiebreakResolvedFingerprint = None
    /\ st.timeTiebreakResolvedDecision = None
    /\ st.prevRoundsTiebreakDecisions = EmptyMap
    /\ st.prevRoundsTiebreakResolvedFingerprint = None
    /\ st.prevRoundsTiebreakResolvedDecision = None

\* INIT_ROUTE with routeIndex 1, RESET_PARTIAL with unmarkAll, and RESET_BOX
ClearingCmds ==
    {[Cmd("INIT_ROUTE") EXCEPT !.routeIndex = Some(1), !.holdsCount = Some(3),
                               !.competitors = Some(RosterAB)],
     Cmd("RESET_BOX")}
    \cup {[Cmd("RESET_PARTIAL") EXCEPT !.unmarkAll = TRUE, !.resetTimer = reset_timer,
                                       !.clearProgress = clear_progress] :
             reset_timer, clear_progress \in BOOLEAN}

\* C37: in every reachable state, for each of the two tiebreak stages, when
\* the resolved-fingerprint pointer is set the decisions map contains that
\* fingerprint and maps it to the value of the resolved-decision pointer;
\* INIT_ROUTE with routeIndex 1, RESET_PARTIAL with unmarkAll and RESET_BOX
\* clear the map and both pointers together.
C37_ResolvedPointersAgreeWithDecisions ==
    /\ PointersAgree(state.timeTiebreakResolvedFingerprint,
                     state.timeTiebreakResolvedDecision, state.timeTiebreakDecisions)
    /\ PointersAgree(state.prevRoundsTiebreakResolvedFingerprint,
                     state.prevRoundsTiebreakResolvedDecision,
                     state.prevRoundsTiebreakDecisions)
    /\ \A cmd \in ClearingCmds :
          LET out == _apply_transition(state, cmd, FreshUuid)
          IN ~out.raised /\ TiebreaksCleared(out.state)

\* both stages decided, the time stage twice: the pointer names the later
\* fingerprint and the map holds both
C37_Witness ==
    /\ state.timeTiebreakResolvedFingerprint # None
    /\ state.prevRoundsTiebreakResolvedFingerprint # None
    /\ Cardinality(DOMAIN state.timeTiebreakDecisions) > 1

\* a clearing command applied over recorded decisions
C37_WitnessCleared ==
    /\ last.type \in {"INIT_ROUTE", "RESET_PARTIAL", "RESET_BOX"}
    /\ TiebreaksCleared(state)
    /\ state.timeTiebreakPreference # None

\* the state after up to k SUBMIT_SCORE commands, each for the currentClimber
\* of the state it is applied to, stopping once currentClimber is empty
RECURSIVE SubmitCurrent(_, _)
SubmitCurrent(st, k) ==
    IF k = 0 \/ st.currentClimber = <<>> THEN st
    ELSE SubmitCurrent(
             _apply_transition(st, [Cmd("SUBMIT_SCORE") EXCEPT
                                      !.competitor = Some(st.currentClimber)],
                               FreshUuid).state,
             k - 1)

QueueEmptied(st) ==
    /\ st.currentClimber = <<>>
    /\ \A i \in 1..Len(st.competitors) : st.competitors[i].marked

DistinctNames(competitors) ==
    \A i, j \in 1..Len(competitors) :
        competitors[i].nume = competitors[j].nume => i = j

\* C38: after INIT_ROUTE with any roster of n accepted competitors
\* (duplicate names allowed, any initial marked flags), repeatedly applying
\* SUBMIT_SCORE for the current currentClimber reaches a state with
\* currentClimber empty after at most n submissions, and in that state every
\* competitor is marked.
C38_SubmissionsEmptyTheQueue ==
    (last.type = "INIT_ROUTE" /\ ~last.raised)
        => QueueEmptied(SubmitCurrent(state, Len(state.competitors)))

\* the same for the rosters whose names are pairwise distinct
C38_DistinctNamesEmptyTheQueue ==
    (last.type = "INIT_ROUTE" /\ ~last.raised /\ DistinctNames(state.competitors))
        => QueueEmptied(SubmitCurrent(state, Len(state.competitors)))

\* a roster of two names, the first already marked
C38_WitnessDistinct ==
    /\ last.type = "INIT_ROUTE"
    /\ Len(state.competitors) = 2
    /\ DistinctNames(state.competitors)
    /\ state.competitors[1].marked
    /\ ~state.competitors[2].marked

\* a SUBMIT_SCORE for a name that carries a score and no registeredTime
SubmitWithoutTime(st, name) ==
    _apply_transition(st, [Cmd("SUBMIT_SCORE") EXCEPT !.competitor = Some(name),
                                                      !.score = Some(70)],
                      FreshUuid)

\* C39: a SUBMIT_SCORE that carries no registeredTime records a time for its
\* competitor only if a REGISTER_TIME with a valid time was applied after the
\* most recent earlier SUBMIT_SCORE, START_TIMER or INIT_ROUTE; a time
\* submitted for one competitor is never recorded for the next competitor.
\* Checked where the latest command is one of the three: no REGISTER_TIME has
\* come since, so a submission without registeredTime leaves times as it is.
C39_NoTimeWithoutRegisterTime ==
    (last.type \in {"SUBMIT_SCORE", "START_TIMER", "INIT_ROUTE"} /\ ~last.raised)
        => \A name \in {A, B} :
              /\ ~SubmitWithoutTime(state, name).raised
              /\ DictOrEmpty(SubmitWithoutTime(state, name).state.times)
                    = DictOrEmpty(state.times)

\* the same where the latest command is START_TIMER or INIT_ROUTE
C39_NoTimeAfterStartOrInit ==
    (last.type \in {"START_TIMER", "INIT_ROUTE"} /\ ~last.raised)
        => \A name \in {A, B} :
              DictOrEmpty(SubmitWithoutTime(state, name).state.times)
                  = DictOrEmpty(state.times)

\* a route initialised over recorded times: a submission records none
C39_WitnessInit ==
    /\ last.type = "INIT_ROUTE"
    /\ ~last.raised
    /\ DOMAIN DictOrEmpty(state.times) # {}

\* a time is recorded from lastRegisteredTime only
C39_TimeFromLastRegisteredTime ==
    \A name \in {A, B} :
        DictOrEmpty(SubmitWithoutTime(state, name).state.times) # DictOrEmpty(state.times)
            => state.lastRegisteredTime # None

\* the submissions of a score of 8.5 with a time of 9.5, and of a score of
\* 8.5 and of no score with the time left to lastRegisteredTime
FrameSubmits ==
    {[Cmd("SUBMIT_SCORE") EXCEPT !.competitor = Some(name), !.score = Some(85),
                                 !.registeredTime = <<"float", 95>>] : name \in {A, B}}
    \cup {[Cmd("SUBMIT_SCORE") EXCEPT !.competitor = Some(name), !.score = score] :
             name \in {A, B}, score \in {None, Some(85)}}

\* the entry of a name for a route, a missing one read as null
RouteEntry(m, name, i) ==
    IF HasKey(m, name) /\ i <= Len(m[name]) THEN m[name][i] ELSE None

\* map new differs from map old at most in the entry of name for route r
OnlyEntryChanged(old, new, name, r) ==
    /\ \A other \in (DOMAIN old \cup DOMAIN new) \ {name} :
          /\ other \in DOMAIN old
          /\ other \in DOMAIN new
          /\ new[other] = old[other]
    /\ HasKey(old, name) => HasKey(new, name)
    /\ \A i \in 1..(MaxRoute + 1) :
          i # r => RouteEntry(new, name, i) = RouteEntry(old, name, i)
    /\ HasKey(old, name) => Len(new[name]) >= Len(old[name])

\* C40: SUBMIT_SCORE for competitor n while routeIndex = r changes, within
\* scores and times, only the entries scores[n][r-1] and times[n][r-1]
\* (padding earlier missing routes of n with null): the entries of every
\* other competitor and the entries of n for every other route index are
\* unchanged, also when the same competitor is re-scored.
C40_SubmitScoreFrame ==
    \A cmd \in FrameSubmits :
        LET out == _apply_transition(state, cmd, FreshUuid)
        IN /\ ~out.raised
           /\ OnlyEntryChanged(DictOrEmpty(state.scores), DictOrEmpty(out.state.scores),
                               Get(cmd.competitor), state.routeIndex)
           /\ OnlyEntryChanged(DictOrEmpty(state.times), DictOrEmpty(out.state.times),
                               Get(cmd.competitor), state.routeIndex)
           /\ cmd.score # None =>
                 RouteEntry(DictOrEmpty(out.state.scores), Get(cmd.competitor),
                            state.routeIndex) = cmd.score

\* the second route scored for A over a first route scored for A and B
C40_Witness ==
    /\ last.type = "SUBMIT_SCORE"
    /\ ~last.raised
    /\ state.routeIndex = 2
    /\ HasKey(DictOrEmpty(state.scores), A)
    /\ Len(DictOrEmpty(state.scores)[A]) = 2
    /\ DictOrEmpty(state.scores)[A][1] # None
    /\ DictOrEmpty(state.scores)[A][2] # None
    /\ HasKey(DictOrEmpty(state.scores), B)
    /\ HasKey(DictOrEmpty(state.times), A)

\* a competitor first scored on the third route: two routes padded
C40_WitnessPadded ==
    /\ last.type = "SUBMIT_SCORE"
    /\ state.routeIndex = 3
    /\ HasKey(DictOrEmpty(state.scores), B)
    /\ DictOrEmpty(state.scores)[B] = <<None, None, Some(55)>>

====
